---- MODULE Spec2Model ----
(***************************************************************************)
(* A model of the Sprout support-ticket assistant:                         *)
(*   - WhatsAppService (the browser client): the command interpreter       *)
(*     handleUserInput, ticket numbering, saveTicket, message polling;     *)
(*   - server.js: GET /messages, POST /save-ticket, POST /api/clear-*;     *)
(*   - messageStorage.js: the incoming / outgoing message log.             *)
(* Texts the code inspects (inbound messages, catalog keys, issue          *)
(* descriptions, ticket numbers) are sequences of one-character strings,   *)
(* so that startsWith / includes / replace / trim / regular expressions    *)
(* are computed as the code computes them.                                 *)
(***************************************************************************)
EXTENDS Integers, Sequences, FiniteSets, TLC

(***************************************************************************)
(* Bounds of the model.                                                    *)
(***************************************************************************)
\* how many steps (messages handled, advances of the clock) one behaviour of
\* the ticket flow takes
MaxSteps == 5
\* how many steps one behaviour of the menu conversation takes
MaxMenuSteps == 3
\* how many tickets one save request carries, and how many save requests one
\* behaviour of the ticket store takes
MaxBody == 2
MaxRequests == 2
\* how many polls the interval timer starts, and how many messages arrive, in
\* one behaviour of the polling
MaxPolls == 3
MaxInbound == 2
\* how many polls the timer starts in one behaviour of the polling at the cap
MaxCapPolls == 2
\* how many steps (calls and clock ticks) a behaviour of the command grammar has
MaxCommandSteps == 2
\* how many messages are handled in one behaviour of the rule order
MaxRuleSteps == 2
\* how many messages are appended to the message log, and how many of its
\* operations are under way at once
MaxLogAppends == 3
MaxLogPending == 2
\* how many steps (calls and clock ticks) a behaviour of the end-to-end
\* conversation has
MaxScenarioSteps == 5
\* how many polls start, and how many messages arrive, in one behaviour of
\* the cursor
MaxSyncPolls == 2
MaxStartTicks == 1
MaxSyncInbound == 2

(***************************************************************************)
(* Program constants (time is counted in seconds; the code's 10000 ms and  *)
(* 5000 ms are 10 and 5).                                                  *)
(***************************************************************************)
DedupWindow == 10
PollInterval == 5
\* how many message ids the client retains
IdCap == 1000

\* seconds in the (non-leap) year after which HHMMSS-DDMM repeats
YearSeconds == 365 * 86400
\* the wall clock when the client is constructed: 5 November, 09:07:03
StartOfRun == ((308 * 24 + 9) * 60 + 7) * 60 + 3

(***************************************************************************)
(* Strings.                                                                *)
(***************************************************************************)
UpperCase == <<"A","B","C","D","E","F","G","H","I","J","K","L","M",
               "N","O","P","Q","R","S","T","U","V","W","X","Y","Z">>
LowerCase == <<"a","b","c","d","e","f","g","h","i","j","k","l","m",
               "n","o","p","q","r","s","t","u","v","w","x","y","z">>
Digits == <<"0","1","2","3","4","5","6","7","8","9">>

\* the lower-case and upper-case forms of the letters
Letters == {UpperCase[i] : i \in 1..26} \cup {LowerCase[i] : i \in 1..26}
CaseTable ==
    [c \in Letters |->
        LET i == CHOOSE k \in 1..26 : UpperCase[k] = c \/ LowerCase[k] = c
        IN  [lower |-> LowerCase[i], upper |-> UpperCase[i]]]

LowerChar(c) == IF c \in Letters THEN CaseTable[c].lower ELSE c

UpperChar(c) == IF c \in Letters THEN CaseTable[c].upper ELSE c

toLowerCase(s) == [i \in 1..Len(s) |-> LowerChar(s[i])]

toUpperCase(s) == [i \in 1..Len(s) |-> UpperChar(s[i])]

RECURSIVE trimStart(_)
trimStart(s) ==
    IF s # <<>> /\ Head(s) = " " THEN trimStart(Tail(s)) ELSE s

RECURSIVE trimEnd(_)
trimEnd(s) ==
    IF s # <<>> /\ s[Len(s)] = " " THEN trimEnd(SubSeq(s, 1, Len(s) - 1)) ELSE s

trim(s) == trimEnd(trimStart(s))

startsWith(s, p) == Len(p) <= Len(s) /\ SubSeq(s, 1, Len(p)) = p

\* the positions (0-based) at which p occurs in s
Occurrences(s, p) ==
    {i \in 0..(Len(s) - Len(p)) : SubSeq(s, i + 1, i + Len(p)) = p}

includes(s, p) == Occurrences(s, p) # {}

\* String.prototype.replace with a string pattern: the first occurrence only
replaceFirst(s, p, r) ==
    IF ~includes(s, p) THEN s
    ELSE LET i == CHOOSE k \in Occurrences(s, p) :
                      \A j \in Occurrences(s, p) : k <= j
         IN  SubSeq(s, 1, i) \o r \o SubSeq(s, i + Len(p) + 1, Len(s))

IsDigit(c) == c \in {"0","1","2","3","4","5","6","7","8","9"}

DigitValue(c) == (CHOOSE i \in 1..10 : Digits[i] = c) - 1

\* parseInt of a string of decimal digits
RECURSIVE parseInt(_)
parseInt(s) ==
    IF s = <<>> THEN 0
    ELSE 10 * parseInt(SubSeq(s, 1, Len(s) - 1)) + DigitValue(s[Len(s)])

\* Number.prototype.toString for a natural number
RECURSIVE toString(_)
toString(n) ==
    IF n < 10 THEN <<Digits[n + 1]>>
    ELSE toString(n \div 10) \o <<Digits[(n % 10) + 1]>>

\* s.padStart(2, '0')
padStart2(s) == IF Len(s) < 2 THEN <<"0">> \o s ELSE s

(***************************************************************************)
(* The wall clock: seconds since 1 January 00:00:00 local time.            *)
(***************************************************************************)
MonthLengths == <<31, 28, 31, 30, 31, 30, 31, 31, 30, 31, 30, 31>>

RECURSIVE DaysBefore(_)
DaysBefore(m) == IF m = 1 THEN 0 ELSE DaysBefore(m - 1) + MonthLengths[m - 1]

getSeconds(t) == t % 60
getMinutes(t) == (t \div 60) % 60
getHours(t) == (t \div 3600) % 24
DayOfYear(t) == (t \div 86400) % 365
\* getMonth() + 1
MonthOf(t) ==
    CHOOSE m \in 1..12 :
        DaysBefore(m) <= DayOfYear(t) /\ DayOfYear(t) < DaysBefore(m) + MonthLengths[m]
getDate(t) == DayOfYear(t) - DaysBefore(MonthOf(t)) + 1

(***************************************************************************)
(* Texts.                                                                  *)
(***************************************************************************)
T_sprout == <<"#","s","p","r","o","u","t">>
T_yes == <<"y","e","s">>
T_Greetings == <<"G","r","e","e","t","i","n","g","s">>
T_NoneSpecified == <<"N","o","n","e"," ","S","p","e","c","i","f","i","e","d">>

\* the value of a variable holding null (a falsy string)
Null == <<>>

\* A reply text.  The canned bodies, which the code never inspects, are named
\* by kind; a and b are the parts a template literal interpolates.
Reply(kind, a, b) == [kind |-> kind, a |-> a, b |-> b]

NoReply == Reply("null", <<>>, <<>>)

(***************************************************************************)
(* The catalog sprout_commands.json, as loadResponses reads it into        *)
(* this.responses.  Issue numbers within a department need not be          *)
(* contiguous.                                                             *)
(***************************************************************************)
Catalog ==
    [ greetings |->
        << [key |-> <<"H","e","l","l","o">>, response |-> Reply("greetings", <<"H","e","l","l","o">>, <<>>)],
           [key |-> <<"h","i">>, response |-> Reply("greetings", <<"h","i">>, <<>>)] >>,
      support_keywords |-> << <<"h","e","l","p">>, <<"I","s","s","u","e">> >>,
      support_greeting |-> Reply("support_greeting", <<>>, <<>>),
      farewells |->
        << [key |-> <<"b","y","e">>, response |-> Reply("farewells", <<"b","y","e">>, <<>>)] >>,
      sprout |-> Reply("Sprout.sprout", <<>>, <<>>),
      departments |->
        [ d \in {"Cloud Department", "Infrastructure Department",
                 "Network and Security Department", "Software Department",
                 "Printing Department", "Warranty Department", "Other"} |->
            CASE d = "Cloud Department" ->
                   [key |-> <<"0","1">>, list |-> << <<"C","1",":","d">> >>]
              [] d = "Infrastructure Department" ->
                   [key |-> <<"0","2">>,
                    list |-> << <<"I","1",":","a">>, <<"I","3",":","b">> >>]
              [] d = "Network and Security Department" ->
                   [key |-> <<"0","3">>, list |-> << <<"N","1",":","e">> >>]
              [] d = "Software Department" ->
                   [key |-> <<"0","4">>, list |-> << <<"S","1",":","f">> >>]
              [] d = "Printing Department" ->
                   [key |-> <<"0","5">>, list |-> << <<"P","1",":","g">> >>]
              [] d = "Warranty Department" ->
                   [key |-> <<"0","6">>, list |-> << <<"W","1",":","h">> >>]
              [] OTHER ->
                   [key |-> <<"0","7">>, list |-> << T_Greetings \o <<"!">> >>] ] ]

\* a catalog whose Cloud department has an issue C10 and no issue C1
SparseCatalog ==
    [Catalog EXCEPT !.departments["Cloud Department"].list =
                        << <<"C","1","0",":","d">> >>]

\* a catalog whose Other text is another sentence
PlainCatalog ==
    [Catalog EXCEPT !.departments["Other"].list = << <<"O","t","h","e","r">> >>]

\* a catalog whose Infrastructure department also lists issues numbered 0
\* and 11
ExcessCatalog ==
    [Catalog EXCEPT !.departments["Infrastructure Department"].list =
                        << <<"I","0",":","z">>, <<"I","1",":","a">>,
                           <<"I","3",":","b">>, <<"I","1","1",":","c">> >>]

\* a catalog that lists the confirmation word among the support keywords
YesKeywordCatalog ==
    [Catalog EXCEPT !.support_keywords = Append(@, T_yes)]

\* a catalog that lists the confirmation word among the farewells
YesFarewellCatalog ==
    [Catalog EXCEPT !.farewells =
                        Append(@, [key |-> T_yes,
                                   response |-> Reply("farewells", T_yes, <<>>)])]

\* the catalogs the model is checked with, by name, and what each holds
Catalogs == {"standard"}

CatalogData(name) ==
    CASE name = "sparse" -> SparseCatalog
      [] name = "excess" -> ExcessCatalog
      [] name = "yesKeyword" -> YesKeywordCatalog
      [] name = "yesFarewell" -> YesFarewellCatalog
      [] name = "plain" -> PlainCatalog
      [] OTHER -> Catalog

greetingStarters ==
    << <<"h","i">>, <<"h","e","l","l","o">>, <<"g","r","e","e","t","i","n","g","s">>,
       <<"h","o","w"," ","d","o"," ","y","o","u"," ","d","o">>,
       <<"g","o","o","d"," ","m","o","r","n","i","n","g">>,
       <<"g","o","o","d"," ","e","v","e","n","i","n","g">>,
       <<"g","o","o","d"," ","a","f","t","e","r","n","o","o","n">>,
       <<"g","o","o","d"," ","d","a","y">> >>

recipientPhone == "264814067806"

(***************************************************************************)
(* Ticket numbering.                                                       *)
(***************************************************************************)
\* a prefix map without entries: every code gets the fallback
fallbackPrefix(deptCode) == <<"T","K","T">>

prefixMap(deptCode) ==
    CASE deptCode = "C" -> <<"C","L","D">>
      [] deptCode = "I" -> <<"I","N","F">>
      [] deptCode = "N" -> <<"N","E","T">>
      [] deptCode = "S" -> <<"S","F","T">>
      [] deptCode = "P" -> <<"P","R","T">>
      [] deptCode = "W" -> <<"W","R","T">>
      [] OTHER -> <<"T","K","T">>

\* charAt(0) of a non-empty string
charAt0(s) == IF s = <<>> THEN "" ELSE s[1]

generateTicketNumber(issue, now) ==
    LET prefix == IF startsWith(issue, T_Greetings)
                  THEN <<"O","T","R">>
                  ELSE prefixMap(charAt0(issue))
        timeString == padStart2(toString(getHours(now)))
                      \o padStart2(toString(getMinutes(now)))
                      \o padStart2(toString(getSeconds(now)))
        dateString == padStart2(toString(getDate(now)))
                      \o padStart2(toString(MonthOf(now)))
    IN  prefix \o <<"-">> \o timeString \o <<"-">> \o dateString

NoTicket ==
    [ticketNumber |-> <<>>, issue |-> <<>>, status |-> "", createdAt |-> 0,
     customerPhone |-> ""]

(***************************************************************************)
(* handleUserInput: the synchronous decisions.                             *)
(***************************************************************************)
isGreeting(message, R) ==
    LET lowerMessage == trim(toLowerCase(message))
    IN  \/ \E i \in 1..Len(R.greetings) :
              lowerMessage = toLowerCase(R.greetings[i].key)
        \/ \E i \in 1..Len(greetingStarters) :
              startsWith(lowerMessage, greetingStarters[i])

startsWithGreeting(lowerMessage) ==
    \E i \in 1..Len(greetingStarters) : startsWith(lowerMessage, greetingStarters[i])

containsSupportKeyword(lowerMessage, R) ==
    \E i \in 1..Len(R.support_keywords) :
        includes(lowerMessage, toLowerCase(R.support_keywords[i]))

defaultResponse == Reply("Hi there! Type #sprout to see our support menu.", <<>>, <<>>)

helpMessage == Reply("Available commands:", <<>>, <<>>)

\* the loop over Object.entries(responses.greetings): the first exact match
greetingResponse(lowerMessage, R) ==
    LET hits == {i \in 1..Len(R.greetings) :
                    lowerMessage = toLowerCase(R.greetings[i].key)}
    IN  IF hits = {} THEN defaultResponse
        ELSE R.greetings[CHOOSE i \in hits : \A j \in hits : i <= j].response

\* the loop over Object.entries(responses.farewells): the first one included
farewellHits(lowerMessage, R) ==
    {i \in 1..Len(R.farewells) : includes(lowerMessage, toLowerCase(R.farewells[i].key))}

farewellResponse(lowerMessage, R) ==
    R.farewells[CHOOSE i \in farewellHits(lowerMessage, R) :
                    \A j \in farewellHits(lowerMessage, R) : i <= j].response

\* Map.set(lowerMessage, Date.now())
markProcessed(rpm, lowerMessage, now) ==
    [k \in (DOMAIN rpm) \cup {lowerMessage} |->
        IF k = lowerMessage THEN now ELSE rpm[k]]

\* the sweep of recentlyProcessedMessages
cleanUp(rpm, now) ==
    [k \in {x \in DOMAIN rpm : ~(now - rpm[x] > DedupWindow)} |-> rpm[k]]

\* the first element in place of the joined list
firstLine(list) == IF list = <<>> THEN <<>> ELSE list[1]

\* Array.prototype.join('\n')
RECURSIVE join(_)
join(list) ==
    IF list = <<>> THEN <<>>
    ELSE IF Len(list) = 1 THEN list[1]
    ELSE list[1] \o <<"\n">> \o join(Tail(list))

\* Array.prototype.find(i => i.startsWith(code)): Null when there is none
findIssue(issues, code) ==
    LET hits == {i \in 1..Len(issues) : startsWith(issues[i], code)}
    IN  IF hits = {} THEN Null
        ELSE issues[CHOOSE i \in hits : \A j \in hits : i <= j]

departmentOfNumber(deptNum) ==
    CASE deptNum = <<"0","1">> -> "Cloud Department"
      [] deptNum = <<"0","2">> -> "Infrastructure Department"
      [] deptNum = <<"0","3">> -> "Network and Security Department"
      [] deptNum = <<"0","4">> -> "Software Department"
      [] deptNum = <<"0","5">> -> "Printing Department"
      [] deptNum = <<"0","6">> -> "Warranty Department"
      [] OTHER -> "Other"

departmentOfCode(deptCode) ==
    CASE deptCode = "C" -> "Cloud Department"
      [] deptCode = "I" -> "Infrastructure Department"
      [] deptCode = "N" -> "Network and Security Department"
      [] deptCode = "S" -> "Software Department"
      [] deptCode = "P" -> "Printing Department"
      [] OTHER -> "Warranty Department"

\* command.match(/^(0[1-7])$/)
deptMatch(command) ==
    /\ Len(command) = 2
    /\ command[1] = "0"
    /\ command[2] \in {"1","2","3","4","5","6","7"}

\* command.match(/^([cinspw])(\d+)$/i)
issueMatch(command) ==
    /\ Len(command) >= 2
    /\ LowerChar(command[1]) \in {"c","i","n","s","p","w"}
    /\ \A i \in 2..Len(command) : IsDigit(command[i])

\* a parse that clears the pending issue on every command, the ones answered
\* with the help text included
parseCommandClearing(lowerMessage, lsi, R) ==
    LET command == trim(replaceFirst(lowerMessage, T_sprout, <<>>))
        dept == R.departments[departmentOfNumber(command)]
        deptCode == toUpperCase(<<command[1]>>)
        issueNum == SubSeq(command, 2, Len(command))
        issues == R.departments[departmentOfCode(deptCode[1])].list
        issue == findIssue(issues, deptCode \o issueNum)
    IN  IF command = <<>>
        THEN [lsi |-> Null, ret |-> R.sprout, branch |-> "menu"]
        ELSE IF deptMatch(command) /\ dept.key = command
        THEN IF command = <<"0","7">>
             THEN [lsi |-> dept.list[1],
                   ret |-> Reply("otherPrompt", dept.list[1], <<>>),
                   branch |-> "other"]
             ELSE [lsi |-> Null, ret |-> Reply("join", join(dept.list), <<>>),
                   branch |-> "department"]
        ELSE IF /\ issueMatch(command)
                /\ parseInt(issueNum) >= 1 /\ parseInt(issueNum) <= 10
                /\ issue # Null
        THEN [lsi |-> issue, ret |-> Reply("Selected issue:", issue, <<>>),
              branch |-> "issue"]
        ELSE [lsi |-> Null, ret |-> helpMessage, branch |-> "help"]

\* a parse that looks up an issue of any number
parseCommandAnyNumber(lowerMessage, lsi, R) ==
    LET command == trim(replaceFirst(lowerMessage, T_sprout, <<>>))
        dept == R.departments[departmentOfNumber(command)]
        deptCode == toUpperCase(<<command[1]>>)
        issueNum == SubSeq(command, 2, Len(command))
        issues == R.departments[departmentOfCode(deptCode[1])].list
        issue == findIssue(issues, deptCode \o issueNum)
    IN  IF command = <<>>
        THEN [lsi |-> Null, ret |-> R.sprout, branch |-> "menu"]
        ELSE IF deptMatch(command) /\ dept.key = command
        THEN IF command = <<"0","7">>
             THEN [lsi |-> dept.list[1],
                   ret |-> Reply("otherPrompt", dept.list[1], <<>>),
                   branch |-> "other"]
             ELSE [lsi |-> Null, ret |-> Reply("join", join(dept.list), <<>>),
                   branch |-> "department"]
        ELSE IF issueMatch(command) /\ issue # Null
        THEN [lsi |-> issue, ret |-> Reply("Selected issue:", issue, <<>>),
              branch |-> "issue"]
        ELSE [lsi |-> lsi, ret |-> helpMessage, branch |-> "help"]

\* The parse of a message that starts with #sprout (lines 543-611):
\* the new lastSelectedIssue and the text returned.
parseCommand(lowerMessage, lsi, R) ==
    LET command == trim(replaceFirst(lowerMessage, T_sprout, <<>>))
        dept == R.departments[departmentOfNumber(command)]
        deptCode == toUpperCase(<<command[1]>>)
        issueNum == SubSeq(command, 2, Len(command))
        num == parseInt(issueNum)
        issues == R.departments[departmentOfCode(deptCode[1])].list
        issue == findIssue(issues, deptCode \o issueNum)
    IN  IF command = <<>>
        THEN [lsi |-> Null, ret |-> R.sprout, branch |-> "menu"]
        ELSE IF deptMatch(command) /\ dept.key = command
        THEN IF command = <<"0","7">>
             THEN [lsi |-> dept.list[1],
                   ret |-> Reply("otherPrompt", dept.list[1], <<>>),
                   branch |-> "other"]
             ELSE [lsi |-> Null, ret |-> Reply("join", join(dept.list), <<>>),
                   branch |-> "department"]
        ELSE IF issueMatch(command) /\ num >= 1 /\ num <= 10 /\ issue # Null
        THEN [lsi |-> issue, ret |-> Reply("Selected issue:", issue, <<>>),
              branch |-> "issue"]
        ELSE [lsi |-> lsi, ret |-> helpMessage, branch |-> "help"]

\* a content check without a window: any recorded content is a repeat
everProcessed(lowerMessage, rpm, now) == lowerMessage \in DOMAIN rpm

\* the content check (lines 431-437): this content was recorded less than
\* DedupWindow ago
recentlyProcessed(lowerMessage, rpm, now) ==
    lowerMessage \in DOMAIN rpm /\ now - rpm[lowerMessage] < DedupWindow

\* an order of the rules in which the command parse comes before the
\* farewells
ruleOfCommandFirst(lowerMessage, lsi, rpm, now, R) ==
    IF recentlyProcessed(lowerMessage, rpm, now)
    THEN "suppressed"
    ELSE IF startsWithGreeting(lowerMessage) /\ containsSupportKeyword(lowerMessage, R)
    THEN "greetingSupport"
    ELSE IF startsWithGreeting(lowerMessage)
    THEN "greeting"
    ELSE IF containsSupportKeyword(lowerMessage, R) /\ ~startsWith(lowerMessage, T_sprout)
    THEN "support"
    ELSE IF lowerMessage = T_yes /\ lsi # Null
    THEN "yes"
    ELSE IF startsWith(lowerMessage, T_sprout)
    THEN "command"
    ELSE IF farewellHits(lowerMessage, R) # {}
    THEN "farewell"
    ELSE "ignored"

\* an order of the rules in which the confirmation comes before the support
\* keywords
ruleOfYesFirst(lowerMessage, lsi, rpm, now, R) ==
    IF recentlyProcessed(lowerMessage, rpm, now)
    THEN "suppressed"
    ELSE IF startsWithGreeting(lowerMessage) /\ containsSupportKeyword(lowerMessage, R)
    THEN "greetingSupport"
    ELSE IF startsWithGreeting(lowerMessage)
    THEN "greeting"
    ELSE IF lowerMessage = T_yes /\ lsi # Null
    THEN "yes"
    ELSE IF containsSupportKeyword(lowerMessage, R) /\ ~startsWith(lowerMessage, T_sprout)
    THEN "support"
    ELSE IF farewellHits(lowerMessage, R) # {}
    THEN "farewell"
    ELSE IF ~startsWith(lowerMessage, T_sprout)
    THEN "ignored"
    ELSE "command"

\* a content check that lets every #sprout command through
ruleOfCommandsUnchecked(lowerMessage, lsi, rpm, now, R) ==
    IF recentlyProcessed(lowerMessage, rpm, now) /\ ~startsWith(lowerMessage, T_sprout)
    THEN "suppressed"
    ELSE IF startsWithGreeting(lowerMessage) /\ containsSupportKeyword(lowerMessage, R)
    THEN "greetingSupport"
    ELSE IF startsWithGreeting(lowerMessage)
    THEN "greeting"
    ELSE IF containsSupportKeyword(lowerMessage, R) /\ ~startsWith(lowerMessage, T_sprout)
    THEN "support"
    ELSE IF lowerMessage = T_yes /\ lsi # Null
    THEN "yes"
    ELSE IF farewellHits(lowerMessage, R) # {}
    THEN "farewell"
    ELSE IF ~startsWith(lowerMessage, T_sprout)
    THEN "ignored"
    ELSE "command"

\* which rule of handleUserInput decides a message
ruleOf(lowerMessage, lsi, rpm, now, R) ==
    IF recentlyProcessed(lowerMessage, rpm, now)
    THEN "suppressed"
    ELSE IF startsWithGreeting(lowerMessage) /\ containsSupportKeyword(lowerMessage, R)
    THEN "greetingSupport"
    ELSE IF startsWithGreeting(lowerMessage)
    THEN "greeting"
    ELSE IF containsSupportKeyword(lowerMessage, R) /\ ~startsWith(lowerMessage, T_sprout)
    THEN "support"
    ELSE IF lowerMessage = T_yes /\ lsi # Null
    THEN "yes"
    ELSE IF farewellHits(lowerMessage, R) # {}
    THEN "farewell"
    ELSE IF ~startsWith(lowerMessage, T_sprout)
    THEN "ignored"
    ELSE "command"

(***************************************************************************)
(* handleIncomingMessage / handleUserInput / saveTicket as a sequence of   *)
(* steps: Begin runs the handler up to its first await, Resume runs it     *)
(* from the completion of one await (ok: the request succeeded) to the     *)
(* next.  pc names the await the handler is suspended at:                  *)
(*   r1_image, r1_send, r1_catch   rule 1: sendImage, sendMessage, the     *)
(*                                 sendMessage of the catch block          *)
(*   r2_image, r2_send             rule 2: sendImage, sendMessage          *)
(*   get, post                     saveTicket: GET /tickets, POST          *)
(*   reply                         handleIncomingMessage: sendMessage      *)
(*   done, thrown                  returned / an error propagated          *)
(***************************************************************************)
Handler(pc, message, rule, ret, ticket, existing) ==
    [pc |-> pc, message |-> message, rule |-> rule, ret |-> ret,
     ticket |-> ticket, existing |-> existing]

NoHandler == Handler("done", <<>>, "none", NoReply, NoTicket, <<>>)

\* handleUserInput returned ret: what handleIncomingMessage does next
afterReturn(message, rule, ret, ticket, R) ==
    Handler(IF ret # NoReply /\ ~isGreeting(message, R) THEN "reply" ELSE "done",
            message, rule, ret, ticket, <<>>)

ticketResponse(ticket) ==
    Reply("Ticket created successfully!", ticket.ticketNumber,
          IF ticket.issue = T_NoneSpecified
          THEN <<"O","t","h","e","r"," ","-"," ">> \o T_NoneSpecified
          ELSE ticket.issue)

newTicket(lsi, now) ==
    [ticketNumber |-> generateTicketNumber(lsi, now),
     issue |-> IF startsWith(lsi, T_Greetings) THEN T_NoneSpecified ELSE lsi,
     status |-> "Open",
     createdAt |-> now,
     customerPhone |-> recipientPhone]

Begin(message, lsi, rpm, now, R) ==
    LET lowerMessage == trim(toLowerCase(message))
        rule == ruleOf(lowerMessage, lsi, rpm, now, R)
        marked == markProcessed(rpm, lowerMessage, now)
        swept == cleanUp(marked, now)
        parsed == parseCommand(lowerMessage, lsi, R)
    IN  CASE rule = "suppressed" ->
               [h |-> afterReturn(message, rule, NoReply, NoTicket, R), lsi |-> lsi, rpm |-> rpm]
          [] rule = "greetingSupport" ->
               [h |-> Handler("r1_image", message, rule, NoReply, NoTicket, <<>>),
                lsi |-> lsi, rpm |-> marked]
          [] rule = "greeting" ->
               [h |-> Handler("r2_image", message, rule, NoReply, NoTicket, <<>>),
                lsi |-> lsi, rpm |-> marked]
          [] rule = "support" ->
               [h |-> afterReturn(message, rule, R.support_greeting, NoTicket, R),
                lsi |-> lsi, rpm |-> marked]
          [] rule = "yes" ->
               [h |-> Handler("get", message, rule, NoReply, newTicket(lsi, now), <<>>),
                lsi |-> lsi, rpm |-> swept]
          [] rule = "farewell" ->
               [h |-> afterReturn(message, rule, farewellResponse(lowerMessage, R),
                                 NoTicket, R),
                lsi |-> lsi, rpm |-> swept]
          [] rule = "ignored" ->
               [h |-> afterReturn(message, rule, NoReply, NoTicket, R), lsi |-> lsi, rpm |-> swept]
          [] OTHER ->
               [h |-> afterReturn(message, parsed.branch, parsed.ret, NoTicket, R),
                lsi |-> parsed.lsi, rpm |-> swept]

(***************************************************************************)
(* The ticket store: tickets.json behind POST /save-ticket.                *)
(***************************************************************************)
ticketNumbers(tickets) == {tickets[i].ticketNumber : i \in 1..Len(tickets)}

\* a store that keeps every ticket it is given, whatever its number
keepEveryTicket(kept, rest) == kept \o rest

\* a store in which a submitted ticket replaces the stored one of its number
RECURSIVE lastTicketWins(_, _)
lastTicketWins(kept, rest) ==
    IF rest = <<>> THEN kept
    ELSE lastTicketWins(
             Append(SelectSeq(kept, LAMBDA t : t.ticketNumber # Head(rest).ticketNumber),
                    Head(rest)),
             Tail(rest))

\* the Map of unique tickets as a list in insertion order: existing tickets
\* first, then the new ones, the first occurrence of each number kept
RECURSIVE uniqueTickets(_, _)
uniqueTickets(kept, rest) ==
    IF rest = <<>> THEN kept
    ELSE IF Head(rest).ticketNumber \in ticketNumbers(kept)
    THEN uniqueTickets(kept, Tail(rest))
    ELSE uniqueTickets(Append(kept, Head(rest)), Tail(rest))

\* insertion of t into a list sorted by createdAt descending, after its equals
RECURSIVE insertByDate(_, _)
insertByDate(sorted, t) ==
    IF sorted = <<>> THEN <<t>>
    ELSE IF Head(sorted).createdAt >= t.createdAt
    THEN <<Head(sorted)>> \o insertByDate(Tail(sorted), t)
    ELSE <<t>> \o sorted

\* Array.prototype.sort((a, b) => new Date(b.createdAt) - new Date(a.createdAt)),
\* a stable sort
RECURSIVE sortByDateDesc(_)
sortByDateDesc(list) ==
    IF list = <<>> THEN <<>>
    ELSE insertByDate(sortByDateDesc(SubSeq(list, 1, Len(list) - 1)), list[Len(list)])

\* a route that stores what it read followed by what it was sent
appendTickets(stored, newTickets) == sortByDateDesc(stored \o newTickets)

\* POST /save-ticket: the file's contents after a request whose body is
\* {tickets: newTickets}, the file holding stored
saveTicketRoute(stored, newTickets) ==
    sortByDateDesc(uniqueTickets(uniqueTickets(<<>>, stored), newTickets))

(***************************************************************************)
(* Resume: the handler h continues after its await completed.  file is     *)
(* tickets.json; the result's sent lists what the transport delivered in   *)
(* this step.                                                              *)
(***************************************************************************)
Step(h, lsi, file, sent) == [h |-> h, lsi |-> lsi, file |-> file, sent |-> sent]

at(h, pc) == [h EXCEPT !.pc = pc]

returned(h, ret, R) == afterReturn(h.message, h.rule, ret, h.ticket, R)

supportGreetingSent(R) == <<[kind |-> "text", body |-> R.support_greeting]>>

Resume(h, lsi, file, ok, R) ==
    LET lowerMessage == trim(toLowerCase(h.message))
        greetingSent == <<[kind |-> "text", body |-> greetingResponse(lowerMessage, R)]>>
        imageSent == <<[kind |-> "image", body |-> NoReply]>>
    IN  CASE h.pc = "r1_image" ->
               IF ok THEN Step(at(h, "r1_send"), lsi, file, imageSent)
               ELSE Step(at(h, "r1_catch"), lsi, file, <<>>)
          [] h.pc = "r1_send" ->
               IF ok THEN Step(returned(h, NoReply, R), lsi, file, supportGreetingSent(R))
               ELSE Step(at(h, "r1_catch"), lsi, file, <<>>)
          [] h.pc = "r1_catch" ->
               IF ok THEN Step(returned(h, NoReply, R), lsi, file, supportGreetingSent(R))
               ELSE Step(at(h, "thrown"), lsi, file, <<>>)
          [] h.pc = "r2_image" ->
               IF ok THEN Step(at(h, "r2_send"), lsi, file, imageSent)
               ELSE Step(returned(h, defaultResponse, R), lsi, file, <<>>)
          [] h.pc = "r2_send" ->
               IF ok THEN Step(returned(h, NoReply, R), lsi, file, greetingSent)
               ELSE Step(returned(h, defaultResponse, R), lsi, file, <<>>)
          [] h.pc = "get" ->
               \* GET /tickets: the list read, or an empty one when not ok
               LET existing == IF ok THEN file ELSE <<>>
               IN  IF h.ticket.ticketNumber \in ticketNumbers(existing)
                   THEN Step(returned(h, ticketResponse(h.ticket), R), Null, file, <<>>)
                   ELSE Step([h EXCEPT !.pc = "post", !.existing = existing],
                             lsi, file, <<>>)
          [] h.pc = "post" ->
               IF ok
               THEN Step(returned(h, ticketResponse(h.ticket), R), Null,
                         saveTicketRoute(file, Append(h.existing, h.ticket)), <<>>)
               ELSE Step(at(h, "thrown"), lsi, file, <<>>)
          [] h.pc = "reply" ->
               IF ok THEN Step(at(h, "done"), lsi, file,
                               <<[kind |-> "text", body |-> h.ret]>>)
               ELSE Step(at(h, "thrown"), lsi, file, <<>>)
          [] OTHER -> Step(h, lsi, file, <<>>)

\* the handler run from h to its end: every way it can end, each await
\* completing with success or with failure (oks: how each one completed)
RECURSIVE Run(_, _, _, _, _, _)
Run(h, lsi, file, sent, oks, R) ==
    IF h.pc \in {"done", "thrown"}
    THEN {[h |-> h, lsi |-> lsi, file |-> file, sent |-> sent, oks |-> oks]}
    ELSE UNION { LET r == Resume(h, lsi, file, ok, R)
                 IN  Run(r.h, r.lsi, r.file, sent \o r.sent, Append(oks, ok), R) :
                 ok \in BOOLEAN }

(***************************************************************************)
(* The message log: chatHistory.json behind messageStorage.js, and         *)
(* GET /messages.                                                          *)
(***************************************************************************)
\* `msg_in_${n}` / `msg_out_${n}`
messageId(prefix, n) == <<prefix, n>>

\* getMaxMessageId(messages, prefix): the highest number among the ids of the
\* prefix, 0 when there is none
getMaxMessageId(messages, prefix) ==
    LET numbers == {messages[k].id[2] :
                       k \in {j \in 1..Len(messages) : messages[j].id[1] = prefix}}
    IN  IF numbers = {} THEN 0
        ELSE CHOOSE n \in numbers : \A o \in numbers : o <= n

\* the empty structure clearMessages and initialize save
emptyMessages == [incoming |-> << >>, outgoing |-> << >>]

\* the message addIncomingMessage(from, content) appends
incomingMessage(n, from, content, now) ==
    [id |-> messageId("msg_in_", n), from |-> from, to |-> "",
     content |-> content, timestamp |-> now, status |-> "received"]

\* the message addOutgoingMessage(to, content) appends
outgoingMessage(n, to, content, now) ==
    [id |-> messageId("msg_out_", n), from |-> "", to |-> to,
     content |-> content, timestamp |-> now, status |-> "sent"]

\* a filter that also keeps the messages stamped with the watermark itself
filterFrom(messages, since) ==
    SelectSeq(messages, LAMBDA msg : msg.timestamp >= since)

\* messages.filter(msg => new Date(msg.timestamp) > since)
filterSince(messages, since) ==
    SelectSeq(messages, LAMBDA msg : msg.timestamp > since)

getMessagesSince(log, since) ==
    [incoming |-> filterSince(log.incoming, since),
     outgoing |-> filterSince(log.outgoing, since)]

\* insertion of m into a list sorted by timestamp ascending, after its equals
RECURSIVE insertByTimestamp(_, _)
insertByTimestamp(sorted, m) ==
    IF sorted = <<>> THEN <<m>>
    ELSE IF Head(sorted).timestamp <= m.timestamp
    THEN <<Head(sorted)>> \o insertByTimestamp(Tail(sorted), m)
    ELSE <<m>> \o sorted

\* Array.prototype.sort((a, b) => new Date(a.timestamp) - new Date(b.timestamp))
RECURSIVE sortByTimestamp(_)
sortByTimestamp(list) ==
    IF list = <<>> THEN <<>>
    ELSE insertByTimestamp(sortByTimestamp(SubSeq(list, 1, Len(list) - 1)),
                           list[Len(list)])

\* the entries GET /messages maps stored messages to
mapIncoming(msg) == [msg EXCEPT !.from = msg.from]
mapOutgoing(msg) == [msg EXCEPT !.from = msg.to]

mapAll(messages, outgoing) ==
    [k \in 1..Len(messages) |->
        IF outgoing THEN mapOutgoing(messages[k]) ELSE mapIncoming(messages[k])]

\* GET /messages?since=: the combined messages of the response
messagesRoute(log, since) ==
    LET newMessages == getMessagesSince(log, since)
    IN  sortByTimestamp(mapAll(newMessages.incoming, FALSE)
                        \o mapAll(newMessages.outgoing, TRUE))

\* a load that displays the history and leaves the watermark where the
\* constructor put it
loadChatHistoryKeepingWatermark(log, watermark, ok) ==
    [displayed |-> IF ok
                   THEN sortByTimestamp(log.incoming \o mapAll(log.outgoing, TRUE))
                   ELSE <<>>,
     watermark |-> watermark]

\* loadChatHistory: GET /debug/chat-history answers with the log (ok) or
\* fails; the messages displayed, in timestamp order, and the watermark
\* afterwards
loadChatHistory(log, watermark, ok) ==
    LET allMessages == sortByTimestamp(log.incoming \o mapAll(log.outgoing, TRUE))
    IN  IF ok
        THEN [displayed |-> allMessages,
              watermark |-> IF allMessages = <<>> THEN watermark
                            ELSE allMessages[Len(allMessages)].timestamp]
        ELSE [displayed |-> <<>>, watermark |-> watermark]

(***************************************************************************)
(* checkForNewMessages: one poll.  A poll is suspended at its fetch        *)
(* (pc "fetch"), or inside the handling of message batch[i] (pc            *)
(* "handling", h the suspended handler), or has ended (pc "done").         *)
(***************************************************************************)
Poll(pc, since, batch, i, h) ==
    [pc |-> pc, since |-> since, batch |-> batch, i |-> i, h |-> h]

\* the client's fields a poll reads and writes, and what the poll did so far
\* (effects: per message id, how often the id check let it through, how many
\* text replies went out for it, how many tickets were stored for it)
Client(lsi, rpm, ids, watermark, effects) ==
    [lsi |-> lsi, rpm |-> rpm, ids |-> ids, watermark |-> watermark,
     effects |-> effects]

NoEffect == [passes |-> 0, replies |-> 0, tickets |-> 0]

effectsOf(effects, id) == IF id \in DOMAIN effects THEN effects[id] ELSE NoEffect

\* effects with one field of id's entry increased by n
count(effects, id, field, n) ==
    LET e == effectsOf(effects, id)
        f == [e EXCEPT ![field] = @ + n]
    IN  [k \in DOMAIN effects \cup {id} |-> IF k = id THEN f ELSE effects[k]]

has(ids, id) == \E k \in 1..Len(ids) : ids[k] = id

\* Set.prototype.add: insertion order kept, a member is not added again
add(ids, id) == IF has(ids, id) THEN ids ELSE Append(ids, id)

\* Array.from(processedMessageIds).slice(-IdCap) when the set is larger
capIds(ids) ==
    IF Len(ids) > IdCap THEN SubSeq(ids, Len(ids) - IdCap + 1, Len(ids)) ELSE ids

\* an end of the try block that takes the watermark from the first message
finishAtFirst(poll, c) ==
    [poll |-> [poll EXCEPT !.pc = "done"],
     c |-> [c EXCEPT !.watermark = poll.batch[1].timestamp,
                     !.ids = capIds(c.ids)]]

\* the end of the try block: the watermark and the cap
finish(poll, c) ==
    [poll |-> [poll EXCEPT !.pc = "done"],
     c |-> [c EXCEPT !.watermark = poll.batch[Len(poll.batch)].timestamp,
                     !.ids = capIds(c.ids)]]

\* the for loop from message batch[poll.i] on, up to the first await that
\* suspends it or to the end of the poll
RECURSIVE loop(_, _, _, _)
\* a loop that interprets every message of the batch, the assistant's own
\* replies ("Hi there! ...") included
loopEveryMessage(poll, c, now, R) ==
    IF poll.i > Len(poll.batch)
    THEN finish(poll, c)
    ELSE LET message == poll.batch[poll.i]
             next == [poll EXCEPT !.i = @ + 1, !.h = NoHandler]
             passed == [c EXCEPT !.effects = count(@, message.id, "passes", 1)]
             messageText == IF message.to = recipientPhone
                            THEN <<"H","i"," ","t","h","e","r","e","!">>
                            ELSE message.content
             b == Begin(messageText, c.lsi, c.rpm, now, R)
         IN  IF has(c.ids, message.id)
             THEN loop(next, c, now, R)
             ELSE IF b.h.pc = "done"
             THEN loop(next,
                       [passed EXCEPT !.lsi = b.lsi, !.rpm = b.rpm,
                                      !.ids = add(@, message.id)],
                       now, R)
             ELSE [poll |-> [poll EXCEPT !.pc = "handling", !.h = b.h],
                   c |-> [passed EXCEPT !.lsi = b.lsi, !.rpm = b.rpm]]

loop(poll, c, now, R) ==
    IF poll.i > Len(poll.batch)
    THEN finish(poll, c)
    ELSE LET message == poll.batch[poll.i]
             next == [poll EXCEPT !.i = @ + 1, !.h = NoHandler]
             passed == [c EXCEPT !.effects = count(@, message.id, "passes", 1)]
             isIncoming == message.from = recipientPhone
             isOutgoing == message.to = recipientPhone
             b == Begin(message.content, c.lsi, c.rpm, now, R)
         IN  IF has(c.ids, message.id)
             THEN loop(next, c, now, R)
             ELSE IF isIncoming /\ ~isOutgoing
             THEN IF b.h.pc = "done"
                  THEN loop(next,
                            [passed EXCEPT !.lsi = b.lsi, !.rpm = b.rpm,
                                           !.ids = add(@, message.id)],
                            now, R)
                  ELSE [poll |-> [poll EXCEPT !.pc = "handling", !.h = b.h],
                        c |-> [passed EXCEPT !.lsi = b.lsi, !.rpm = b.rpm]]
             ELSE loop(next, [passed EXCEPT !.ids = add(@, message.id)], now, R)

\* the response of GET /messages arrived
fetched(poll, batch, c, now, R) ==
    IF batch = <<>>
    THEN [poll |-> [poll EXCEPT !.pc = "done"], c |-> c]
    ELSE loop([poll EXCEPT !.batch = batch, !.i = 1], c, now, R)

(***************************************************************************)
(* State.                                                                  *)
(***************************************************************************)
VARIABLES
    clock,                      \* the wall clock, in seconds
    ticks,                      \* how many times the clock advanced
    catalog,                    \* which sprout_commands.json is deployed
    lastSelectedIssue,          \* WhatsAppService.lastSelectedIssue
    recentlyProcessedMessages,  \* WhatsAppService.recentlyProcessedMessages
    ticketsFile,                \* public/tickets.json: the list of tickets
    calls,                      \* how many messages were handed to the handler
    last,                       \* the latest handleIncomingMessage call, as observed
    saveRequests,               \* POST /save-ticket requests that have read the file
    responded,                  \* how many save requests were answered
    lastSave,                   \* the latest answered save request, as observed
    chatHistory,                \* public/chatHistory.json: incoming and outgoing
    messageCounter,             \* MessageStorage.messageCounter
    lastMessageTimestamp,       \* WhatsAppService.lastMessageTimestamp
    processedMessageIds,        \* WhatsAppService.processedMessageIds
    polls,                      \* the checkForNewMessages executions, in start order
    effects,                    \* per message id: what the polls did for it
    storageOps,                 \* MessageStorage operations whose write is under way
    issued,                     \* per direction: the id numbers assigned so far, in order
    history                     \* what the store held when loadChatHistory ran, and what it displayed

flowVars == <<lastSelectedIssue, recentlyProcessedMessages, ticketsFile>>
callVars == <<calls, last>>
storeVars == <<saveRequests, responded, lastSave>>
pollVars == <<chatHistory, messageCounter, lastMessageTimestamp,
              processedMessageIds, polls, effects, storageOps, issued, history>>

vars == <<clock, ticks, catalog, flowVars, callVars, storeVars, pollVars>>

\* the inbound texts of the ticket flow
Inbound ==
    { <<"#","s","p","r","o","u","t">>,
      <<"#","s","p","r","o","u","t"," ","0","7">>,
      <<"#","S","P","R","O","U","T"," ","I","3">>,
      <<" ","Y","e","s"," ">> }

\* how long the clock advances at once: a poll interval, or a whole year
TimeSteps == {PollInterval, YearSeconds}

\* WhatsAppService.responses, as loadResponses fetched it
responses == CatalogData(catalog)

\* what a call of handleIncomingMessage did: the message, the rule that decided
\* it, how it ended (pc), the text handleUserInput returned, the ticket it made,
\* what the transport delivered, how its requests completed, and the pending
\* issue and the clock when it was called
Observed(message, before, now, r) ==
    [message |-> message, rule |-> r.h.rule, pc |-> r.h.pc, ret |-> r.h.ret,
     ticket |-> r.h.ticket, sent |-> r.sent, oks |-> r.oks, pending |-> before,
     at |-> now]

NoCall ==
    [message |-> <<>>, rule |-> "none", pc |-> "done", ret |-> NoReply,
     ticket |-> NoTicket, sent |-> <<>>, oks |-> <<>>, pending |-> Null, at |-> 0]

\* what a save did: who answered (the route, or the client without a
\* request), the tickets submitted, the list read, the list written
Saved(by, body, read, written, success, duplicatesFound) ==
    [by |-> by, body |-> body, read |-> read, written |-> written,
     success |-> success, duplicatesFound |-> duplicatesFound]

NoSave == Saved("none", <<>>, <<>>, <<>>, FALSE, FALSE)

\* the client constructed at StartOfRun with catalog c deployed, the message
\* log holding log (all of it displayed by loadChatHistory) and the client
\* having recorded ids
Started(c, log, ids) ==
    /\ clock = StartOfRun
    /\ ticks = 0
    /\ catalog = c
    /\ lastSelectedIssue = Null
    /\ recentlyProcessedMessages = << >>
    /\ ticketsFile = << >>
    /\ calls = 0
    /\ last = NoCall
    /\ saveRequests = << >>
    /\ responded = 0
    /\ lastSave = NoSave
    /\ chatHistory = log
    /\ messageCounter = [incoming |-> Len(log.incoming) + 1,
                         outgoing |-> Len(log.outgoing) + 1]
    /\ lastMessageTimestamp = StartOfRun
    /\ processedMessageIds = ids
    /\ polls = << >>
    /\ effects = << >>
    /\ storageOps = << >>
    /\ issued = [incoming |-> [k \in 1..Len(log.incoming) |-> log.incoming[k].id[2]],
                 outgoing |-> [k \in 1..Len(log.outgoing) |-> log.outgoing[k].id[2]]]
    /\ history = [stored |-> log.incoming \o mapAll(log.outgoing, TRUE),
                  displayed |-> log.incoming \o mapAll(log.outgoing, TRUE)]

Init ==
    \E c \in Catalogs :
        Started(c, [incoming |-> << >>, outgoing |-> << >>], << >>)

Tick(d) ==
    /\ clock' = clock + d
    /\ ticks' = ticks + 1
    /\ UNCHANGED <<catalog, flowVars, callVars, storeVars, pollVars>>

\* handleIncomingMessage(message), run to its end
HandleIncomingMessage(message) ==
    /\ LET b == Begin(message, lastSelectedIssue, recentlyProcessedMessages,
                      clock, responses)
       IN  /\ recentlyProcessedMessages' = b.rpm
           /\ \E r \in Run(b.h, b.lsi, ticketsFile, <<>>, <<>>, responses) :
                  /\ lastSelectedIssue' = r.lsi
                  /\ ticketsFile' = r.file
                  /\ last' = Observed(message, lastSelectedIssue, clock, r)
    /\ calls' = calls + 1
    /\ UNCHANGED <<clock, ticks, catalog, storeVars, pollVars>>

Next ==
    \/ \E d \in TimeSteps : calls + ticks < MaxSteps /\ Tick(d)
    \/ \E message \in Inbound :
           calls + ticks < MaxSteps /\ HandleIncomingMessage(message)

\* The ticket flow: selections and confirmations, over a clock that advances
\* by poll intervals and by years.
Spec == Init /\ [][Next]_vars

\* the inbound texts of the menu conversation
MenuInbound ==
    { <<"#","s","p","r","o","u","t">>,
      <<"#","s","p","r","o","u","t"," ","0","2">>,
      <<"#","s","p","r","o","u","t"," ","0","7">>,
      <<"#","S","P","R","O","U","T"," ","I","3">>,
      <<"#","s","p","r","o","u","t"," ","i","9">>,
      <<"#","s","p","r","o","u","t"," ","b","y","e">>,
      <<" ","Y","e","s"," ">>,
      <<"H","e","l","l","o">>,
      <<"h","i"," ","h","e","l","p">>,
      <<"h","e","l","p">>,
      <<"b","y","e">>,
      <<"o","k">> }

MenuNext ==
    \/ \E d \in TimeSteps : calls + ticks < MaxMenuSteps /\ Tick(d)
    \/ \E message \in MenuInbound :
           calls + ticks < MaxMenuSteps /\ HandleIncomingMessage(message)

\* The menu conversation: every kind of message the interpreter tells apart.
MenuSpec == Init /\ [][MenuNext]_vars

(***************************************************************************)
(* The command grammar, over catalogs of different content.                *)
(***************************************************************************)
CommandCatalogs == {"standard", "sparse", "excess", "plain"}

Sprout(command) == T_sprout \o <<" ">> \o command

\* the inbound texts of the command grammar
CommandInbound ==
    { T_sprout,
      Sprout(<<"0","2">>), Sprout(<<"0","6">>), Sprout(<<"0","7">>),
      Sprout(<<"7">>), Sprout(<<"0","0","7">>), Sprout(<<"0","8">>),
      Sprout(<<"0","0">>),
      Sprout(<<"c","1">>), Sprout(<<"c","0","1">>), Sprout(<<"I","3">>),
      Sprout(<<"i","0">>), Sprout(<<"i","1","1">>),
      T_yes }

CommandInit ==
    \E c \in CommandCatalogs :
        Started(c, [incoming |-> << >>, outgoing |-> << >>], << >>)

CommandNext ==
    \/ \E d \in TimeSteps : calls + ticks < MaxCommandSteps /\ Tick(d)
    \/ \E message \in CommandInbound :
           calls + ticks < MaxCommandSteps /\ HandleIncomingMessage(message)

\* The command grammar: every shape of #sprout command, and the
\* confirmation, with each of the catalogs deployed.
CommandSpec == CommandInit /\ [][CommandNext]_vars

(***************************************************************************)
(* The order of the rules, over catalogs in which the rules overlap.       *)
(***************************************************************************)
RuleCatalogs == {"standard", "yesKeyword", "yesFarewell"}

\* the inbound texts of the rule order: for each pair of neighbouring rules
\* a text on which both conditions hold
RuleInbound ==
    { <<"h","i"," ","h","e","l","p">>,
      <<"H","e","l","l","o">>,
      <<"h","i"," ","t","h","e","r","e">>,
      <<"h","e","l","p"," ","b","y","e">>,
      T_yes,
      <<"b","y","e">>,
      Sprout(<<"b","y","e">>),
      Sprout(<<"h","e","l","p">>),
      Sprout(<<"0","7">>),
      <<"o","k">> }

RuleInit ==
    \E c \in RuleCatalogs :
        Started(c, [incoming |-> << >>, outgoing |-> << >>], << >>)

RuleNext ==
    \E message \in RuleInbound :
        calls < MaxRuleSteps /\ HandleIncomingMessage(message)

\* The order of the rules: texts on which several rules' conditions hold,
\* with each of the catalogs deployed.
RuleSpec == RuleInit /\ [][RuleNext]_vars

(***************************************************************************)
(* The end-to-end conversation: menu, department, issue, confirmation.     *)
(***************************************************************************)
Scenario ==
    << T_sprout, Sprout(<<"0","2">>), Sprout(<<"i","3">>), T_yes >>

ScenarioNext ==
    \/ \E d \in TimeSteps : calls + ticks < MaxScenarioSteps /\ Tick(d)
    \/ /\ calls < Len(Scenario)
       /\ calls + ticks < MaxScenarioSteps
       /\ HandleIncomingMessage(Scenario[calls + 1])

\* The end-to-end conversation: the four messages arrive in their order,
\* any time apart, each request of their handling succeeding or failing.
ScenarioSpec == Init /\ [][ScenarioNext]_vars

(***************************************************************************)
(* The ticket store under requests of any content.                         *)
(***************************************************************************)
\* the tickets submitted: two with one number (the same department, the same
\* second of the same day, a year apart) and one with another
StoreTickets ==
    { newTicket(Catalog.departments["Infrastructure Department"].list[1], StartOfRun),
      newTicket(Catalog.departments["Infrastructure Department"].list[2],
                StartOfRun + YearSeconds),
      newTicket(Catalog.departments["Cloud Department"].list[1],
                StartOfRun + PollInterval) }

\* the request bodies: every list of 1..MaxBody of the tickets
Bodies == UNION { [1..n -> StoreTickets] : n \in 1..MaxBody }

\* POST /save-ticket, from the request to the read of tickets.json
SaveTicketRead(body) ==
    /\ saveRequests' = Append(saveRequests, [body |-> body, read |-> ticketsFile])
    /\ UNCHANGED <<clock, ticks, catalog, flowVars, callVars, responded, lastSave,
                   pollVars>>

\* POST /save-ticket, from the read to the response: request q writes
SaveTicketWrite(q) ==
    LET request == saveRequests[q]
        finalTickets == saveTicketRoute(request.read, request.body)
        duplicatesFound ==
            \E k \in 1..Len(request.body) :
                request.body[k].ticketNumber
                    \in ticketNumbers(uniqueTickets(<<>>, request.read))
                            \cup {request.body[j].ticketNumber : j \in 1..(k - 1)}
    IN  /\ ticketsFile' = finalTickets
        /\ saveRequests' = [k \in 1..(Len(saveRequests) - 1) |->
                               IF k < q THEN saveRequests[k] ELSE saveRequests[k + 1]]
        /\ responded' = responded + 1
        /\ lastSave' = Saved("route", request.body, request.read, finalTickets,
                             TRUE, duplicatesFound)
        /\ UNCHANGED <<clock, ticks, catalog, lastSelectedIssue,
                       recentlyProcessedMessages, callVars, pollVars>>

\* POST /api/clear-tickets
ClearTickets ==
    /\ ticketsFile' = << >>
    /\ UNCHANGED <<clock, ticks, catalog, lastSelectedIssue,
                   recentlyProcessedMessages, callVars, storeVars, pollVars>>

\* WhatsAppService.saveTicket(ticket) up to its POST: GET /tickets answers
\* with the list (ok) or with an error status; a ticket found in the list is
\* answered with success at once, any other is submitted with the list
SaveTicket(ticket, ok) ==
    LET existing == IF ok THEN ticketsFile ELSE << >>
        isDuplicate == ticket.ticketNumber \in ticketNumbers(existing)
    IN  /\ IF isDuplicate
           THEN /\ responded' = responded + 1
                /\ lastSave' = Saved("client", <<ticket>>, existing, ticketsFile,
                                     TRUE, TRUE)
                /\ UNCHANGED saveRequests
           ELSE /\ saveRequests' = Append(saveRequests,
                                          [body |-> Append(existing, ticket),
                                           read |-> ticketsFile])
                /\ UNCHANGED <<responded, lastSave>>
        /\ UNCHANGED <<clock, ticks, catalog, flowVars, callVars, pollVars>>

StoreNext ==
    \/ \E body \in Bodies :
           responded + Len(saveRequests) < MaxRequests /\ SaveTicketRead(body)
    \/ \E q \in 1..Len(saveRequests) : SaveTicketWrite(q)
    \/ ticketsFile # << >> /\ ClearTickets
    \/ \E ticket \in StoreTickets, ok \in BOOLEAN :
           responded + Len(saveRequests) < MaxRequests /\ SaveTicket(ticket, ok)

\* The ticket store: save requests of any content (their reads and writes
\* interleaved), clears, and the client's saveTicket.
StoreSpec == Init /\ [][StoreNext]_vars

(***************************************************************************)
(* Polling.                                                                *)
(***************************************************************************)
\* the inbound texts of the polled conversation
PollInbound ==
    { <<"#","s","p","r","o","u","t"," ","0","7">>,
      <<"y","e","s">> }

\* the client's fields as a poll sees them
client ==
    Client(lastSelectedIssue, recentlyProcessedMessages, processedMessageIds,
           lastMessageTimestamp, effects)

\* the client's fields written back
Becomes(c) ==
    /\ lastSelectedIssue' = c.lsi
    /\ recentlyProcessedMessages' = c.rpm
    /\ processedMessageIds' = c.ids
    /\ lastMessageTimestamp' = c.watermark
    /\ effects' = c.effects

\* POST /webhook: a message of the recipient is stored
Webhook(content) ==
    /\ chatHistory' =
           [chatHistory EXCEPT !.incoming =
                Append(@, incomingMessage(messageCounter.incoming, recipientPhone,
                                          content, clock))]
    /\ messageCounter' = [messageCounter EXCEPT !.incoming = @ + 1]
    /\ issued' = [issued EXCEPT !.incoming = Append(@, messageCounter.incoming)]
    /\ UNCHANGED <<clock, ticks, catalog, flowVars, callVars, storeVars,
                   lastMessageTimestamp, processedMessageIds, polls, effects,
                   storageOps, history>>

\* setInterval(() => this.checkForNewMessages(), 5000): the interval has
\* passed and the timer starts a poll, which sends its request
IntervalTimer ==
    /\ clock' = clock + PollInterval
    /\ polls' = Append(polls, Poll("fetch", lastMessageTimestamp, <<>>, 0, NoHandler))
    /\ UNCHANGED <<ticks, catalog, flowVars, callVars, storeVars, chatHistory,
                   messageCounter, lastMessageTimestamp, processedMessageIds,
                   effects, storageOps, issued, history>>

\* the response of poll p's GET /messages arrives (ok), or the request fails
\* and the poll ends in its catch block
MessagesFetched(p, ok) ==
    /\ polls[p].pc = "fetch"
    /\ LET r == fetched(polls[p], messagesRoute(chatHistory, polls[p].since),
                        client, clock, responses)
       IN  IF ok
           THEN /\ polls' = [polls EXCEPT ![p] = r.poll]
                /\ Becomes(r.c)
           ELSE /\ polls' = [polls EXCEPT ![p].pc = "done"]
                /\ UNCHANGED <<lastSelectedIssue, recentlyProcessedMessages,
                               processedMessageIds, lastMessageTimestamp, effects>>
    /\ UNCHANGED <<clock, ticks, catalog, ticketsFile, callVars, storeVars,
                   chatHistory, messageCounter, storageOps, issued, history>>

\* a route that stores the message before it hears from the transport
sendMessageStoredFirst(log, counter, to, message, transportOk, now) ==
    [log |-> [log EXCEPT !.outgoing =
                  Append(@, outgoingMessage(counter.outgoing, to, message, now))],
     counter |-> [counter EXCEPT !.outgoing = @ + 1],
     success |-> transportOk]

\* POST /send-message: the request to the transport (axios) succeeds or
\* throws; the log and the counters afterwards, and the success of the
\* response
sendMessageRoute(log, counter, to, message, transportOk, now) ==
    IF transportOk
    THEN [log |-> [log EXCEPT !.outgoing =
                       Append(@, outgoingMessage(counter.outgoing, to, message, now))],
          counter |-> [counter EXCEPT !.outgoing = @ + 1],
          success |-> TRUE]
    ELSE [log |-> log, counter |-> counter, success |-> FALSE]

\* POST /send-message succeeded for each text in sent
RECURSIVE storeOutgoing(_, _, _, _)
storeOutgoing(log, counter, sent, now) ==
    IF sent = <<>> THEN [log |-> log, counter |-> counter]
    ELSE IF Head(sent).kind = "text"
    THEN LET r == sendMessageRoute(log, counter, recipientPhone, Head(sent).body,
                                   TRUE, now)
         IN  storeOutgoing(r.log, r.counter, Tail(sent), now)
    ELSE storeOutgoing(log, counter, Tail(sent), now)

\* the text the sendMessage handler h is suspended in is sending (NoReply
\* when h is suspended in another request)
attempted(h, R) ==
    CASE h.pc \in {"r1_send", "r1_catch"} -> R.support_greeting
      [] h.pc = "r2_send" -> greetingResponse(trim(toLowerCase(h.message)), R)
      [] h.pc = "reply" -> h.ret
      [] OTHER -> NoReply

\* POST /send-message failed for the text handler h was sending
storeFailed(log, counter, h, now, R) ==
    IF attempted(h, R) = NoReply THEN [log |-> log, counter |-> counter]
    ELSE LET r == sendMessageRoute(log, counter, recipientPhone, attempted(h, R),
                                   FALSE, now)
         IN  [log |-> r.log, counter |-> r.counter]

texts(sent) == {k \in 1..Len(sent) : sent[k].kind = "text"}

\* the await poll p's handler is suspended at completes (ok: with success)
HandlerResumes(p, ok) ==
    /\ polls[p].pc = "handling"
    /\ LET poll == polls[p]
           id == poll.batch[poll.i].id
           r == Resume(poll.h, lastSelectedIssue, ticketsFile, ok, responses)
           stored == IF ok
                     THEN storeOutgoing(chatHistory, messageCounter, r.sent, clock)
                     ELSE storeFailed(chatHistory, messageCounter, poll.h, clock,
                                      responses)
           counted ==
               count(count(effects, id, "replies", Cardinality(texts(r.sent))),
                     id, "tickets", Len(r.file) - Len(ticketsFile))
           \* sendMessage records the id the transport gave the reply
           sentIds == IF texts(r.sent) = {} THEN processedMessageIds
                      ELSE add(processedMessageIds,
                               messageId("wamid.", messageCounter.outgoing))
           c == [client EXCEPT !.lsi = r.lsi, !.ids = sentIds, !.effects = counted]
           ended ==
               IF r.h.pc = "done"
               THEN loop([poll EXCEPT !.i = @ + 1, !.h = NoHandler],
                         [c EXCEPT !.ids = add(@, id)], clock, responses)
               ELSE IF r.h.pc = "thrown"
               THEN [poll |-> [poll EXCEPT !.pc = "done", !.h = r.h], c |-> c]
               ELSE [poll |-> [poll EXCEPT !.h = r.h], c |-> c]
       IN  /\ ticketsFile' = r.file
           /\ chatHistory' = stored.log
           /\ messageCounter' = stored.counter
           /\ issued' = [issued EXCEPT !.outgoing =
                             @ \o [k \in 1..(stored.counter.outgoing
                                                - messageCounter.outgoing) |->
                                       messageCounter.outgoing + k - 1]]
           /\ polls' = [polls EXCEPT ![p] = ended.poll]
           /\ Becomes(ended.c)
    /\ UNCHANGED <<clock, ticks, catalog, callVars, storeVars, storageOps, history>>

PollNext ==
    \/ Len(polls) < MaxPolls /\ IntervalTimer
    \/ \E content \in PollInbound :
           Len(chatHistory.incoming) < MaxInbound /\ Webhook(content)
    \/ \E p \in 1..Len(polls), ok \in BOOLEAN : MessagesFetched(p, ok)
    \/ \E p \in 1..Len(polls), ok \in BOOLEAN : HandlerResumes(p, ok)

\* Polling: the interval timer starts polls every PollInterval seconds while
\* messages arrive and requests complete at any later moment.
PollSpec == Init /\ [][PollNext]_vars



(***************************************************************************)
(* Polling by a client that has recorded IdCap message ids.                *)
(***************************************************************************)
\* how many messages the operator sent from the chat page before
SentBefore == IdCap \div 2

\* the log of those messages, one a second, the last at StartOfRun
sentLog ==
    [incoming |-> << >>,
     outgoing |-> [k \in 1..SentBefore |->
                      outgoingMessage(k, recipientPhone, <<"o","k">>,
                                      StartOfRun - (SentBefore - k))]]

\* the ids recorded for them: for each message the id the transport gave it
\* (sendMessage), then the id of the log (the poll that returned it)
sentIds ==
    [j \in 1..(2 * SentBefore) |->
        IF j % 2 = 1 THEN messageId("wamid.", (j + 1) \div 2)
        ELSE messageId("msg_out_", j \div 2)]

CapInit == Started("standard", sentLog, sentIds)

CapNext ==
    \/ Len(polls) < MaxCapPolls /\ IntervalTimer
    \/ \E content \in PollInbound :
           Len(chatHistory.incoming) < MaxInbound /\ Webhook(content)
    \/ \E p \in 1..Len(polls), ok \in BOOLEAN : MessagesFetched(p, ok)
    \/ \E p \in 1..Len(polls), ok \in BOOLEAN : HandlerResumes(p, ok)

\* Polling at the cap: the client's set of ids is full when the messages
\* arrive.
CapSpec == CapInit /\ [][CapNext]_vars

(***************************************************************************)
(* The cursor: polls over a log that grows.                                *)
(***************************************************************************)
\* the inbound texts: one that is answered, one that is not
SyncInbound ==
    { <<"#","s","p","r","o","u","t"," ","0","7">>,
      <<"o","k">> }

SyncNext ==
    \/ Len(polls) < MaxSyncPolls /\ IntervalTimer
    \/ \E content \in SyncInbound :
           Len(chatHistory.incoming) < MaxSyncInbound /\ Webhook(content)
    \/ \E p \in 1..Len(polls), ok \in BOOLEAN : MessagesFetched(p, ok)
    \/ \E p \in 1..Len(polls), ok \in BOOLEAN : HandlerResumes(p, ok)

\* The cursor: what GET /messages returns and how the polls move the
\* watermark, replies being stored between the inbound messages.
SyncSpec == Init /\ [][SyncNext]_vars

(***************************************************************************)
(* The message log under concurrent operations of MessageStorage.  An      *)
(* operation is one step up to the call of saveMessages (fs.writeFile) and *)
(* one more when its write reaches the file.                               *)
(***************************************************************************)
Directions == {"incoming", "outgoing"}

StorageOp(op, direction, id, data) ==
    [op |-> op, direction |-> direction, id |-> id, data |-> data]

\* addIncomingMessage / addOutgoingMessage: readMessages has returned the
\* file; the message gets its id and the new contents are handed to
\* saveMessages
AddMessage(direction, content) ==
    LET n == messageCounter[direction]
        message == IF direction = "incoming"
                   THEN incomingMessage(n, recipientPhone, content, clock)
                   ELSE outgoingMessage(n, recipientPhone, content, clock)
        data == [chatHistory EXCEPT ![direction] = Append(@, message)]
    IN  /\ storageOps' = Append(storageOps, StorageOp("add", direction, n, data))
        /\ messageCounter' = [messageCounter EXCEPT ![direction] = @ + 1]
        /\ issued' = [issued EXCEPT ![direction] = Append(@, n)]
        /\ UNCHANGED <<clock, ticks, catalog, flowVars, callVars, storeVars,
                       chatHistory, lastMessageTimestamp, processedMessageIds,
                       polls, effects, history>>

\* clearMessages: the counters are reset and the empty structure is handed
\* to saveMessages
ClearMessages ==
    /\ messageCounter' = [incoming |-> 1, outgoing |-> 1]
    /\ storageOps' = Append(storageOps, StorageOp("clear", "", 0, emptyMessages))
    /\ UNCHANGED <<clock, ticks, catalog, flowVars, callVars, storeVars,
                   chatHistory, lastMessageTimestamp, processedMessageIds,
                   polls, effects, issued, history>>

\* saveMessages: the write of operation q reaches the file
WriteLands(q) ==
    /\ chatHistory' = storageOps[q].data
    /\ storageOps' = [k \in 1..(Len(storageOps) - 1) |->
                         IF k < q THEN storageOps[k] ELSE storageOps[k + 1]]
    /\ UNCHANGED <<clock, ticks, catalog, flowVars, callVars, storeVars,
                   messageCounter, lastMessageTimestamp, processedMessageIds,
                   polls, effects, issued, history>>

\* the server starts again, no operation being under way: the constructor
\* and initialize
Initialize ==
    /\ storageOps = << >>
    /\ messageCounter' =
           [incoming |-> getMaxMessageId(chatHistory.incoming, "msg_in_") + 1,
            outgoing |-> getMaxMessageId(chatHistory.outgoing, "msg_out_") + 1]
    /\ UNCHANGED <<clock, ticks, catalog, flowVars, callVars, storeVars,
                   chatHistory, lastMessageTimestamp, processedMessageIds,
                   polls, effects, storageOps, issued, history>>

LogNext ==
    \/ \E direction \in Directions :
           /\ Len(issued.incoming) + Len(issued.outgoing) < MaxLogAppends
           /\ Len(storageOps) < MaxLogPending
           /\ AddMessage(direction, <<"o","k">>)
    \/ Len(storageOps) < MaxLogPending /\ ClearMessages
    \/ \E q \in 1..Len(storageOps) : WriteLands(q)
    \/ Initialize

\* The message log: appends, clears and restarts, the writes reaching the
\* file in any order.
LogSpec == Init /\ [][LogNext]_vars

(***************************************************************************)
(* Polling while the chat history is cleared.                              *)
(***************************************************************************)
ClearNext ==
    \/ Len(polls) < MaxSyncPolls /\ IntervalTimer
    \/ \E content \in SyncInbound :
           Len(issued.incoming) < MaxLogAppends /\ Webhook(content)
    \/ \E p \in 1..Len(polls), ok \in BOOLEAN : MessagesFetched(p, ok)
    \/ \E p \in 1..Len(polls), ok \in BOOLEAN : HandlerResumes(p, ok)
    \/ Len(storageOps) < MaxLogPending /\ ClearMessages
    \/ \E q \in 1..Len(storageOps) : WriteLands(q)

\* A running client polls while messages arrive and POST
\* /api/clear-chat-history clears the log and restarts the message ids.
ClearSpec == Init /\ [][ClearNext]_vars

(***************************************************************************)
(* The start of polling: the client is constructed at StartOfRun, loads    *)
(* the chat history some time later and then polls.                        *)
(***************************************************************************)
\* startMessagePolling: loadChatHistory has returned and the initial check
\* sends its request
StartMessagePolling(ok) ==
    /\ polls = << >>
    /\ LET loaded == loadChatHistory(chatHistory, lastMessageTimestamp, ok)
       IN  /\ history' = [stored |-> chatHistory.incoming
                                         \o mapAll(chatHistory.outgoing, TRUE),
                          displayed |-> loaded.displayed]
           /\ lastMessageTimestamp' = loaded.watermark
           /\ polls' = <<Poll("fetch", loaded.watermark, <<>>, 0, NoHandler)>>
    /\ UNCHANGED <<clock, ticks, catalog, flowVars, callVars, storeVars,
                   chatHistory, messageCounter, processedMessageIds, effects,
                   storageOps, issued>>

StartNext ==
    \/ polls = << >> /\ ticks < MaxStartTicks /\ Tick(PollInterval)
    \/ Len(chatHistory.incoming) < MaxSyncInbound /\ Webhook(Sprout(<<"0","7">>))
    \/ \E ok \in BOOLEAN : StartMessagePolling(ok)
    \/ polls # << >> /\ Len(polls) < MaxSyncPolls /\ IntervalTimer
    \/ \E p \in 1..Len(polls), ok \in BOOLEAN : MessagesFetched(p, ok)
    \/ \E p \in 1..Len(polls), ok \in BOOLEAN : HandlerResumes(p, ok)

\* The start of polling: messages arrive before and after the client loads
\* the chat history, and the load succeeds or fails.
StartSpec == Init /\ [][StartNext]_vars

(***************************************************************************)
(* Claims about the ticket flow (specification Spec).                      *)
(***************************************************************************)
\* this step is a call of handleIncomingMessage
IsCall == calls' = calls + 1

lowerOf(message) == trim(toLowerCase(message))

AllOk(oks) == \A i \in 1..Len(oks) : oks[i]

\* C1: whenever handleIncomingMessage is called with "yes" while an issue is
\* pending, exactly one ticket is added to the store and the pending issue
\* becomes none; a "yes" while no issue is pending adds no ticket.
C1_YesCreatesExactlyOneTicket ==
    [][ (IsCall /\ lowerOf(last'.message) = T_yes) =>
            IF lastSelectedIssue # Null
            THEN /\ Len(ticketsFile') = Len(ticketsFile) + 1
                 /\ lastSelectedIssue' = Null
            ELSE ticketsFile' = ticketsFile ]_vars

\* a confirmation whose generated ticket number is already in the store
Collides ==
    /\ IsCall
    /\ last'.rule = "yes"
    /\ last'.ticket.ticketNumber \in ticketNumbers(ticketsFile)

\* C8: when a confirmation generates a ticket number that an earlier
\* confirmation already stored, the store is left as it was (the first ticket
\* stays, the second is not stored); and when the handler returns, the session
\* is Idle and the reply delivered is "Ticket created successfully" for the
\* second ticket; it returns whenever none of its requests fails.
C8_CollisionMergesSilently ==
    [][ Collides =>
            /\ ticketsFile' = ticketsFile
            /\ AllOk(last'.oks) => last'.pc = "done"
            /\ last'.pc = "done" =>
                   /\ lastSelectedIssue' = Null
                   /\ last'.sent = <<[kind |-> "text",
                                     body |-> ticketResponse(last'.ticket)]>> ]_vars

\* C8 witness: a second confirmation was answered with success although the
\* store holds another confirmation's ticket under its number.
C8_Witness ==
    /\ last.rule = "yes"
    /\ last.pc = "done"
    /\ lastSelectedIssue = Null
    /\ last.sent = <<[kind |-> "text", body |-> ticketResponse(last.ticket)]>>
    /\ \E i \in 1..Len(ticketsFile) :
           /\ ticketsFile[i].ticketNumber = last.ticket.ticketNumber
           /\ ticketsFile[i].createdAt # last.ticket.createdAt

\* the pending issue the interpreter decides on for a call
DecidedIssue(c) ==
    CASE c.rule = "yes" -> Null
      [] c.rule \in {"menu", "department", "other", "issue", "help"} ->
             parseCommand(lowerOf(c.message), c.pending, responses).lsi
      [] OTHER -> c.pending

\* C9: when handling a message ends with a failure propagated to the caller
\* (the ticket save or the reply send failed), the session transition decided
\* for the message has taken effect; after a failed "yes" the pending issue is
\* none.
C9_TransitionBeforeFailure ==
    last.pc = "thrown" => lastSelectedIssue = DecidedIssue(last)

\* C12: a message whose trimmed, lowercased content was recorded less than
\* DedupWindow seconds before is suppressed (no rule runs, nothing is sent,
\* the recorded time stays, so the window is not restarted); any other
\* message is processed and its content recorded with the current time.
C12_ContentDeduplication ==
    [][ IsCall =>
            LET content == lowerOf(last'.message)
                rpm == recentlyProcessedMessages
            IN  IF content \in DOMAIN rpm /\ clock - rpm[content] < DedupWindow
                THEN /\ last'.rule = "suppressed"
                     /\ last'.sent = <<>>
                     /\ recentlyProcessedMessages' = rpm
                     /\ UNCHANGED <<lastSelectedIssue, ticketsFile>>
                ELSE /\ last'.rule # "suppressed"
                     /\ content \in DOMAIN recentlyProcessedMessages'
                     /\ recentlyProcessedMessages'[content] = clock ]_vars

\* C12 witness: three messages of one content at StartOfRun, within the
\* window after it and DedupWindow after it; the third is processed again.
C12_Witness ==
    /\ calls = 3
    /\ clock = StartOfRun + DedupWindow
    /\ DOMAIN recentlyProcessedMessages = {lowerOf(last.message)}
    /\ recentlyProcessedMessages[lowerOf(last.message)] = clock
    /\ last.at = clock
    /\ last.rule \notin {"suppressed", "none"}
    /\ last.sent # <<>>

(***************************************************************************)
(* Claims about the menu conversation (specification MenuSpec).            *)
(***************************************************************************)
\* C2: after a greeting message is handled (rule 1, greeting and support
\* keyword, or rule 2, greeting only) the session is Idle: no issue is pending.
C2_GreetingResetsSession ==
    last.rule \in {"greetingSupport", "greeting"} => lastSelectedIssue = Null

\* C3 as claimed: after a message that starts with #sprout is handled, the
\* pending issue is none unless that command selected an issue or Other.
C3_EveryCommandResets ==
    startsWith(lowerOf(last.message), T_sprout) =>
        \/ lastSelectedIssue = Null
        \/ last.rule \in {"issue", "other"}

\* C3 as amended: after a message that starts with #sprout is handled, the
\* pending issue is none when the command was the bare #sprout or a department
\* 01..06, it is the selected text when the command selected an issue or
\* Other (07), and it is what it was before when the command was answered with
\* the help text or with a farewell, or was suppressed as a repeat.
C3_CommandEffectOnPendingIssue ==
    startsWith(lowerOf(last.message), T_sprout) =>
        /\ last.rule \in {"menu", "department", "issue", "other", "help",
                          "farewell", "suppressed"}
        /\ last.rule \in {"menu", "department"} => lastSelectedIssue = Null
        /\ last.rule \in {"issue", "other"} =>
               /\ lastSelectedIssue # Null
               /\ lastSelectedIssue = last.ret.a
        /\ last.rule \in {"help", "farewell", "suppressed"} =>
               lastSelectedIssue = last.pending

\* C3 witness: a command answered with the help text left an issue pending.
C3_Witness ==
    /\ last.rule = "help"
    /\ last.pending # Null
    /\ lastSelectedIssue = last.pending
    /\ last.sent = <<[kind |-> "text", body |-> helpMessage]>>

(***************************************************************************)
(* Claims about the ticket store (specification StoreSpec).                *)
(***************************************************************************)
\* C6: in every state of the ticket store, no two stored tickets have the
\* same ticket number.
C6_TicketNumbersUnique ==
    \A i, j \in 1..Len(ticketsFile) :
        ticketsFile[i].ticketNumber = ticketsFile[j].ticketNumber => i = j

\* C6 witness: the store holds two tickets after a request that carried one
\* ticket number twice.
C6_Witness ==
    /\ lastSave.by = "route"
    /\ \E i, j \in 1..Len(lastSave.body) :
           i < j /\ lastSave.body[i].ticketNumber = lastSave.body[j].ticketNumber
    /\ Len(ticketsFile) >= 2

\* the save answered in this step
IsSaved == responded' = responded + 1

\* every ticket of the body has the number of a ticket in the list read
AllStored(s) ==
    \A k \in 1..Len(s.body) : s.body[k].ticketNumber \in ticketNumbers(s.read)

\* C7: whenever a save is answered, every ticket that was stored is still
\* stored with all its fields; and when every submitted ticket has the number
\* of a stored one, the save reports success and the stored list is exactly
\* the list that was read.
C7_IdempotentInsert ==
    [][ IsSaved =>
            /\ \A i \in 1..Len(lastSave'.read) :
                   \E j \in 1..Len(ticketsFile') : ticketsFile'[j] = lastSave'.read[i]
            /\ AllStored(lastSave') =>
                   /\ lastSave'.success
                   /\ lastSave'.duplicatesFound
                   /\ ticketsFile' = lastSave'.read ]_vars

\* C7 witness: a ticket was submitted under the number of a stored ticket that
\* differs from it, and the stored one is what the store holds.
C7_Witness ==
    /\ lastSave.by = "route"
    /\ lastSave.success
    /\ AllStored(lastSave)
    /\ \E k \in 1..Len(lastSave.body), i \in 1..Len(ticketsFile) :
           /\ lastSave.body[k].ticketNumber = ticketsFile[i].ticketNumber
           /\ lastSave.body[k] # ticketsFile[i]
           /\ \E j \in 1..Len(lastSave.read) : lastSave.read[j] = ticketsFile[i]

(***************************************************************************)
(* Claims about polling (specification PollSpec).                          *)
(***************************************************************************)
\* the polls that have started and not ended
running == {p \in 1..Len(polls) : polls[p].pc # "done"}

\* C4: for every inbound message id, at most one text reply is sent and at
\* most one ticket is stored, however the polls that see the message
\* interleave.
C4_OneSideEffectPerId ==
    \A id \in DOMAIN effects :
        effects[id].replies <= 1 /\ effects[id].tickets <= 1

\* C5: polls never overlap: the interval timer starts a poll only when every
\* earlier poll has ended.
C5_PollsNeverOverlap ==
    [][ Len(polls') > Len(polls) => running = {} ]_vars

\* C10: of all the checks of one message id, only the first lets the message
\* through to the interpreter; every later check of that id rejects it.
C10_IdCheckedOnce ==
    \A id \in DOMAIN effects : effects[id].passes <= 1

(***************************************************************************)
(* Claims about polling at the cap (specification CapSpec).                *)
(***************************************************************************)
\* C11: whenever no poll is in progress (every operation that adds ids has
\* completed), the client holds at most IdCap message ids.
C11_SeenSetCapped ==
    running = {} => Len(processedMessageIds) <= IdCap

(***************************************************************************)
(* Further claims about the menu conversation (specification MenuSpec).    *)
(***************************************************************************)
\* C13: after every call of the handler, whatever rule decided the message,
\* the content map holds no entry older than DedupWindow seconds.
C13_ContentMapPurged ==
    [][ IsCall =>
            \A content \in DOMAIN recentlyProcessedMessages' :
                clock - recentlyProcessedMessages'[content] <= DedupWindow ]_vars

(***************************************************************************)
(* Claims about the message log and the cursor (specification SyncSpec).   *)
(***************************************************************************)
\* the stored messages of both directions
stored ==
    {chatHistory.incoming[k] : k \in 1..Len(chatHistory.incoming)}
        \cup {chatHistory.outgoing[k] : k \in 1..Len(chatHistory.outgoing)}

\* the watermarks a request can carry: the start of the run and every stamp
Watermarks == {StartOfRun} \cup {msg.timestamp : msg \in stored}

\* C14: for every watermark, GET /messages returns exactly the stored
\* messages of both directions stamped strictly after the watermark, each
\* once, in ascending order of timestamp, an incoming one as stored and an
\* outgoing one with its recipient in the field from.
C14_MessagesSince ==
    \A since \in Watermarks :
        LET r == messagesRoute(chatHistory, since)
        IN  /\ {r[k].id : k \in 1..Len(r)}
                   = {msg.id : msg \in {s \in stored : s.timestamp > since}}
            /\ \A i, j \in 1..Len(r) : i # j => r[i].id # r[j].id
            /\ \A i, j \in 1..Len(r) : i < j => r[i].timestamp <= r[j].timestamp
            /\ \A k \in 1..Len(r) :
                   \E msg \in stored :
                       /\ msg.id = r[k].id
                       /\ r[k].timestamp = msg.timestamp
                       /\ r[k].content = msg.content
                       /\ r[k].to = msg.to
                       /\ r[k].from = IF msg.status = "sent" THEN msg.to ELSE msg.from

\* C14 witness: for some watermark the response holds an incoming message
\* before a later outgoing one, and leaves a stored message out.
C14_Witness ==
    \E since \in Watermarks :
        LET r == messagesRoute(chatHistory, since)
        IN  /\ \E i, j \in 1..Len(r) :
                   /\ i < j
                   /\ r[i].to = "" /\ r[i].from = recipientPhone
                   /\ r[j].to = recipientPhone /\ r[j].from = recipientPhone
                   /\ r[i].timestamp < r[j].timestamp
            /\ \E msg \in stored : msg.timestamp <= since

\* poll p ends in this step
Ends(p) == polls[p].pc # "done" /\ polls'[p].pc = "done"

\* C15: a poll that reaches the end of a non-empty batch sets the watermark
\* to the timestamp of the last message of that batch; a poll whose response
\* is empty leaves the watermark (and everything else the client holds) as
\* it was; and a poll that asks with a watermark after which nothing is
\* stored gets an empty response.
C15_CursorAdvance ==
    [][ \A p \in 1..Len(polls) :
            Ends(p) =>
                /\ (polls'[p].batch # <<>> /\ polls'[p].h.pc # "thrown") =>
                       lastMessageTimestamp'
                           = polls'[p].batch[Len(polls'[p].batch)].timestamp
                /\ polls'[p].batch = <<>> =>
                       UNCHANGED <<lastMessageTimestamp, processedMessageIds,
                                   lastSelectedIssue, recentlyProcessedMessages>>
                /\ (\A msg \in stored : msg.timestamp <= polls[p].since) =>
                       polls'[p].batch = <<>> ]_vars

\* C15 witness: a poll has moved the watermark to the last message of its
\* batch, and a later poll that asked with that watermark, nothing newer
\* being stored, got an empty response and left it there.
C15_Witness ==
    \E p, q \in 1..Len(polls) :
        /\ p < q
        /\ polls[p].pc = "done" /\ polls[p].batch # <<>>
        /\ polls[p].h.pc # "thrown"
        /\ lastMessageTimestamp = polls[p].batch[Len(polls[p].batch)].timestamp
        /\ lastMessageTimestamp > StartOfRun
        /\ polls[q].pc = "done" /\ polls[q].batch = <<>>
        /\ polls[q].since = lastMessageTimestamp
        /\ \A msg \in stored : msg.timestamp <= lastMessageTimestamp

(***************************************************************************)
(* Claims about the command grammar (specification CommandSpec).           *)
(***************************************************************************)
\* what follows #sprout in a message
commandOf(message) == trim(replaceFirst(lowerOf(message), T_sprout, <<>>))

\* the message is a command that the content check let through
IsCommand(message, call) ==
    startsWith(lowerOf(message), T_sprout) /\ call.rule # "suppressed"

\* the code of an issue text: its first character and the digits after it
codeOf(issue) ==
    LET n == CHOOSE k \in 0..(Len(issue) - 1) :
                 /\ \A i \in 2..(k + 1) : IsDigit(issue[i])
                 /\ k + 2 > Len(issue) \/ ~IsDigit(issue[k + 2])
    IN  SubSeq(issue, 1, n + 1)

\* the issues of the letter's department whose code is the letter and n
ExactIssues(letter, n) ==
    LET issues == responses.departments[departmentOfCode(UpperChar(letter))].list
    IN  {issues[i] : i \in {k \in 1..Len(issues) :
                                codeOf(issues[k]) = <<UpperChar(letter)>> \o toString(n)}}

\* C16: a command "#sprout <letter><digits>", the letter one of c, i, n, s,
\* p, w in either case and the digits parsing to n in 1..10, makes pending
\* the issue of the catalog whose code is exactly <LETTER><n> when there is
\* one; when there is none it is answered with the help text and selects
\* nothing.
C16_ExactIssueSelected ==
    [][ (IsCall /\ IsCommand(last'.message, last')) =>
            LET command == commandOf(last'.message)
                n == parseInt(SubSeq(command, 2, Len(command)))
            IN  (issueMatch(command) /\ n >= 1 /\ n <= 10) =>
                    IF ExactIssues(command[1], n) # {}
                    THEN /\ last'.rule = "issue"
                         /\ lastSelectedIssue' \in ExactIssues(command[1], n)
                         /\ last'.ret = Reply("Selected issue:", lastSelectedIssue', <<>>)
                    ELSE /\ last'.ret = helpMessage
                         /\ lastSelectedIssue' = lastSelectedIssue ]_vars

\* C17: a command "#sprout <letter><digits>" whose digits parse to a number
\* outside 1..10 is answered with the help text and selects no issue: what
\* was pending before it is pending after it.
C17_OutOfRangeIsHelp ==
    [][ (IsCall /\ IsCommand(last'.message, last')) =>
            LET command == commandOf(last'.message)
                n == parseInt(SubSeq(command, 2, Len(command)))
            IN  (issueMatch(command) /\ (n < 1 \/ n > 10)) =>
                    /\ last'.rule = "help"
                    /\ last'.ret = helpMessage
                    /\ lastSelectedIssue' = lastSelectedIssue
                    /\ last'.sent \in {<<>>, <<[kind |-> "text", body |-> helpMessage]>>}
                    /\ AllOk(last'.oks) => last'.sent # <<>> ]_vars

\* C17 witness: with a catalog that lists an issue I11 deployed and I3
\* pending, "#sprout i11" was answered with the help text and I3 is still
\* pending.
C17_Witness ==
    /\ catalog = "excess"
    /\ commandOf(last.message) = <<"i","1","1">>
    /\ last.rule = "help"
    /\ last.sent = <<[kind |-> "text", body |-> helpMessage]>>
    /\ last.pending = <<"I","3",":","b">>
    /\ lastSelectedIssue = last.pending

\* the remainders that name a department with an issue list
ListedDepartments ==
    { <<"0","1">>, <<"0","2">>, <<"0","3">>, <<"0","4">>, <<"0","5">>, <<"0","6">> }

\* the lines of a text: what stands between its line breaks
RECURSIVE lines(_)
lines(text) ==
    IF ~includes(text, <<"\n">>) THEN <<text>>
    ELSE LET i == CHOOSE k \in 1..Len(text) :
                      text[k] = "\n" /\ \A j \in 1..(k - 1) : text[j] # "\n"
         IN  <<SubSeq(text, 1, i - 1)>> \o lines(SubSeq(text, i + 1, Len(text)))

\* C18: what follows #sprout selects a department only when it is exactly
\* 01..07.  For 01..06 the reply is that department's issues joined by line
\* breaks and nothing is pending afterwards; for 07 the reply is the Other
\* text with the confirmation prompt and the Other text is pending; for the
\* empty remainder the reply is the root menu and nothing is pending; any
\* other remainder (7, 007, 08, 00, ...) is not answered as a department.
C18_DepartmentSelection ==
    [][ (IsCall /\ IsCommand(last'.message, last')) =>
            LET command == commandOf(last'.message)
                list == responses.departments[departmentOfNumber(command)].list
            IN  /\ command = <<>> =>
                       /\ last'.rule = "menu"
                       /\ last'.ret = responses.sprout
                       /\ lastSelectedIssue' = Null
                /\ command \in ListedDepartments =>
                       /\ last'.rule = "department"
                       /\ last'.ret.kind = "join"
                       /\ lines(last'.ret.a) = list
                       /\ lastSelectedIssue' = Null
                /\ command = <<"0","7">> =>
                       /\ last'.rule = "other"
                       /\ Len(list) = 1
                       /\ last'.ret = Reply("otherPrompt", list[1], <<>>)
                       /\ lastSelectedIssue' = list[1]
                /\ command \notin ListedDepartments \cup {<<"0","7">>, <<>>} =>
                       /\ last'.rule \notin {"menu", "department", "other"}
                       /\ last'.ret.kind \notin {"join", "otherPrompt", "Sprout.sprout"}
                /\ last'.sent \in {<<>>, <<[kind |-> "text", body |-> last'.ret]>>}
                /\ AllOk(last'.oks) => last'.sent # <<>> ]_vars

\* C18 witness: with an issue pending, "#sprout 02" was answered with the two
\* issues of the Infrastructure department on two lines and nothing is
\* pending.
C18_Witness ==
    /\ catalog = "standard"
    /\ commandOf(last.message) = <<"0","2">>
    /\ last.pending # Null
    /\ last.rule = "department"
    /\ last.sent = <<[kind |-> "text",
                      body |-> Reply("join", <<"I","1",":","a","\n","I","3",":","b">>, <<>>)]>>
    /\ lastSelectedIssue = Null

\* the Other text of the catalog deployed
otherText == responses.departments["Other"].list[1]

\* C19: a "yes" received while the Other selection (07) is pending, all of
\* whose requests succeed, creates a ticket with a number of prefix OTR and
\* the issue text "None Specified", and leaves nothing pending, whatever
\* the Other text of the catalog is.
C19_OtherTicket ==
    [][ ( /\ IsCall
          /\ lowerOf(last'.message) = T_yes
          /\ last'.rule = "yes"
          /\ lastSelectedIssue = otherText
          /\ AllOk(last'.oks) /\ last'.pc = "done" ) =>
            /\ startsWith(last'.ticket.ticketNumber, <<"O","T","R","-">>)
            /\ last'.ticket.issue = T_NoneSpecified
            /\ \E k \in 1..Len(ticketsFile') : ticketsFile'[k] = last'.ticket
            /\ lastSelectedIssue' = Null ]_vars

\* a number below 100 written with two digits
TwoDigits(n) == <<Digits[(n \div 10) + 1], Digits[(n % 10) + 1]>>

\* the prefix the department letter of a pending selection stands for
PrefixOf(pending) ==
    IF pending = otherText THEN <<"O","T","R">>
    ELSE CASE pending[1] = "C" -> <<"C","L","D">>
           [] pending[1] = "I" -> <<"I","N","F">>
           [] pending[1] = "N" -> <<"N","E","T">>
           [] pending[1] = "S" -> <<"S","F","T">>
           [] pending[1] = "P" -> <<"P","R","T">>
           [] pending[1] = "W" -> <<"W","R","T">>
           [] OTHER -> <<>>

\* C20: the number of every ticket made by a "yes" is PREFIX-HHMMSS-DDMM,
\* the fields being the hour, minute, second, day and month of the clock
\* written with two digits each, and PREFIX the one the pending selection
\* stands for: CLD, INF, NET, SFT, PRT or WRT by the letter of a pending
\* issue, OTR when the Other selection is pending; never anything else.
C20_TicketNumberFormat ==
    [][ (IsCall /\ last'.rule = "yes") =>
            last'.ticket.ticketNumber =
                PrefixOf(lastSelectedIssue) \o <<"-">>
                    \o TwoDigits(getHours(clock)) \o TwoDigits(getMinutes(clock))
                    \o TwoDigits(getSeconds(clock)) \o <<"-">>
                    \o TwoDigits(getDate(clock)) \o TwoDigits(MonthOf(clock)) ]_vars

(***************************************************************************)
(* Claims about the end-to-end conversation (specification ScenarioSpec).  *)
(***************************************************************************)
\* the call ended without an error, every request of it having succeeded
Succeeded(call) == call.pc = "done" /\ AllOk(call.oks)

\* the text reply the call sent, as its one delivery
RepliedWith(call, text) == call.sent = <<[kind |-> "text", body |-> text]>>

issueI3 == <<"I","3",":","b">>

\* C21: from an idle session the messages "#sprout", "#sprout 02",
\* "#sprout i3", "yes", none of them suppressed as a repeat and each handled
\* with its requests succeeding, are answered in this order with the root
\* menu, the issue list of the Infrastructure department, "Selected issue:"
\* with issue I3 (which is then pending), and a ticket confirmation whose
\* number begins with INF-, after which nothing is pending.
C21_EndToEnd ==
    (calls > 0 /\ Succeeded(last)) =>
        /\ last.message = Scenario[calls]
        /\ last.rule # "suppressed"
        /\ calls = 1 =>
               /\ last.pending = Null
               /\ RepliedWith(last, responses.sprout)
               /\ lastSelectedIssue = Null
        /\ calls = 2 =>
               /\ last.ret.kind = "join"
               /\ lines(last.ret.a) =
                      responses.departments["Infrastructure Department"].list
               /\ RepliedWith(last, last.ret)
               /\ lastSelectedIssue = Null
        /\ calls = 3 =>
               /\ RepliedWith(last, Reply("Selected issue:", issueI3, <<>>))
               /\ lastSelectedIssue = issueI3
        /\ calls = 4 =>
               /\ last.pending = issueI3
               /\ startsWith(last.ticket.ticketNumber, <<"I","N","F","-">>)
               /\ RepliedWith(last, Reply("Ticket created successfully!",
                                          last.ticket.ticketNumber, issueI3))
               /\ ticketsFile = <<last.ticket>>
               /\ lastSelectedIssue = Null

\* C21 witness: the fourth message has been confirmed with a ticket INF-...
\* and nothing is pending.
C21_Witness ==
    /\ calls = 4
    /\ Succeeded(last)
    /\ last.message = T_yes
    /\ last.rule = "yes"
    /\ last.pending = issueI3
    /\ Len(last.sent) = 1
    /\ startsWith(last.sent[1].body.a, <<"I","N","F","-">>)
    /\ Len(ticketsFile) = 1
    /\ lastSelectedIssue = Null

(***************************************************************************)
(* Claims about the order of the rules (specification RuleSpec).           *)
(***************************************************************************)
\* the texts the call delivered
textsSent(call) ==
    {call.sent[k].body : k \in {j \in 1..Len(call.sent) : call.sent[j].kind = "text"}}

\* the rule that is first, in the order 1..7, among those whose condition
\* holds for text t with pending pending
FirstRule(t, pending) ==
    LET G == startsWithGreeting(t)
        K == containsSupportKeyword(t, responses)
        S == startsWith(t, T_sprout)
        Y == t = T_yes /\ pending # Null
        F == farewellHits(t, responses) # {}
    IN  CASE G /\ K -> "greetingSupport"
          [] G /\ ~K -> "greeting"
          [] ~G /\ K /\ ~S -> "support"
          [] ~G /\ ~(K /\ ~S) /\ Y -> "yes"
          [] ~G /\ ~(K /\ ~S) /\ ~Y /\ F -> "farewell"
          [] ~G /\ ~(K /\ ~S) /\ ~Y /\ ~F /\ ~S -> "ignored"
          [] OTHER -> "command"

\* C22: a message that the content check lets through is decided by the
\* first rule, in the fixed order, whose condition holds: greeting with
\* support keyword before greeting only and keyword only; a support keyword
\* (without the #sprout prefix) before "yes" and the farewells; "yes" with
\* an issue pending before the farewells; the farewells before the command
\* parse; and a "yes" with nothing pending makes no ticket and is decided
\* by the later rules.
C22_RulePriority ==
    [][ (IsCall /\ last'.rule # "suppressed") =>
            LET t == lowerOf(last'.message)
                first == FirstRule(t, lastSelectedIssue)
            IN  /\ first = "greetingSupport" =>
                       /\ last'.rule = "greetingSupport"
                       /\ textsSent(last') \subseteq {responses.support_greeting}
                       /\ last'.ticket = NoTicket
                /\ first = "greeting" =>
                       /\ last'.rule = "greeting"
                       /\ textsSent(last') \subseteq {greetingResponse(t, responses)}
                       /\ last'.ticket = NoTicket
                /\ first = "support" =>
                       /\ last'.rule = "support"
                       /\ last'.ret = responses.support_greeting
                       /\ textsSent(last') \subseteq {responses.support_greeting}
                       /\ last'.ticket = NoTicket /\ ticketsFile' = ticketsFile
                /\ first = "yes" =>
                       /\ last'.rule = "yes"
                       /\ last'.ticket # NoTicket
                       /\ textsSent(last') \subseteq {ticketResponse(last'.ticket)}
                /\ first = "farewell" =>
                       /\ last'.rule = "farewell"
                       /\ last'.ret = farewellResponse(t, responses)
                       /\ textsSent(last') \subseteq {last'.ret}
                       /\ last'.ticket = NoTicket /\ ticketsFile' = ticketsFile
                       /\ lastSelectedIssue' = lastSelectedIssue
                /\ first = "ignored" =>
                       /\ last'.rule = "ignored" /\ last'.sent = <<>>
                /\ first = "command" =>
                       last'.rule \in {"menu", "department", "other", "issue", "help"}
                /\ (t = T_yes /\ lastSelectedIssue = Null) =>
                       /\ last'.rule \in {"support", "farewell", "ignored"}
                       /\ last'.ticket = NoTicket /\ ticketsFile' = ticketsFile ]_vars

\* C22 witness: with the catalog that lists "yes" among the farewells and
\* the Other selection pending, a "yes" was decided by rule 4 and made a
\* ticket.
C22_Witness ==
    /\ catalog = "yesFarewell"
    /\ last.message = T_yes
    /\ farewellHits(lowerOf(last.message), responses) # {}
    /\ last.pending # Null
    /\ last.rule = "yes"
    /\ Succeeded(last)
    /\ Len(ticketsFile) = 1
    /\ textsSent(last) = {ticketResponse(last.ticket)}

\* C23: handling a message decided by rule 3 (support keyword), rule 5
\* (farewell) or rule 6 (free text that does not start with #sprout) leaves
\* the pending issue and the ticket store as they were; rule 6 sends
\* nothing.
C23_NoStateChange ==
    [][ (IsCall /\ last'.rule # "suppressed") =>
            LET first == FirstRule(lowerOf(last'.message), lastSelectedIssue)
            IN  /\ first \in {"support", "farewell", "ignored"} =>
                       /\ lastSelectedIssue' = lastSelectedIssue
                       /\ ticketsFile' = ticketsFile
                       /\ last'.ticket = NoTicket
                /\ first = "ignored" =>
                       /\ last'.ret = NoReply
                       /\ last'.sent = <<>> /\ last'.oks = <<>> ]_vars

\* C23 witness: with the Other selection pending, a "yes" that is a support
\* keyword of the catalog deployed was answered with the support greeting,
\* and the selection is still pending and the store still empty.
C23_Witness ==
    /\ catalog = "yesKeyword"
    /\ last.message = T_yes
    /\ last.pending # Null
    /\ last.rule = "support"
    /\ RepliedWith(last, responses.support_greeting)
    /\ lastSelectedIssue = last.pending
    /\ ticketsFile = <<>>

\* how many texts the call delivered
textCount(call) == Cardinality({k \in 1..Len(call.sent) : call.sent[k].kind = "text"})

\* C24: a greeting-only message, every send of a text for it succeeding,
\* gets exactly one text reply (the greeting table's response when the text
\* equals an entry of the table, the nudge toward #sprout otherwise), also
\* when the send of the logo image (the first request) fails.
C24_GreetingAlwaysAnswered ==
    [][ ( /\ IsCall /\ last'.rule # "suppressed"
          /\ FirstRule(lowerOf(last'.message), lastSelectedIssue) = "greeting"
          /\ \A k \in 2..Len(last'.oks) : last'.oks[k] ) =>
            /\ textCount(last') = 1
            /\ textsSent(last') =
                   {greetingResponse(lowerOf(last'.message), responses)} ]_vars

\* C25: of what is delivered for a greeting message (rules 1 and 2), the
\* text response comes first and the logo image after it.
C25_TextBeforeImage ==
    [][ ( /\ IsCall /\ last'.rule # "suppressed"
          /\ FirstRule(lowerOf(last'.message), lastSelectedIssue)
                 \in {"greeting", "greetingSupport"} ) =>
            \A i, j \in 1..Len(last'.sent) :
                (last'.sent[i].kind = "text" /\ last'.sent[j].kind = "image") =>
                    i < j ]_vars

(***************************************************************************)
(* Claims about the message log's operations (specification LogSpec).      *)
(***************************************************************************)
\* the id numbers of the messages stored in a direction, in file order
storedNumbers(direction) ==
    [k \in 1..Len(chatHistory[direction]) |-> chatHistory[direction][k].id[2]]

\* C26: the operations of the message storage are atomic: once the
\* operations that ran concurrently have completed, the file is what some
\* serial order of them leaves.  Run one after another, an append stores
\* the message numbered by the counter and a clear empties the file and
\* resets the counters, so after any serial order the file holds, in each
\* direction, the messages numbered 1 up to the counter minus one; in
\* particular two concurrent appends are both stored.
C26_StorageAtomic ==
    storageOps = << >> =>
        \A direction \in Directions :
            storedNumbers(direction) =
                [k \in 1..(messageCounter[direction] - 1) |-> k]

\* C27: within a direction every message appended gets an id number greater
\* than every number assigned in that direction before, whatever appends,
\* restarts and clears came between.
C27_IdsMonotonic ==
    \A direction \in Directions :
        \A i, j \in 1..Len(issued[direction]) :
            i < j => issued[direction][i] < issued[direction][j]

(***************************************************************************)
(* Claims about sending and polling (specification SyncSpec).              *)
(***************************************************************************)
\* poll p's handler is suspended in the sendMessage of handleIncomingMessage
\* and this step completes that request
ReplyCompletes(p) ==
    /\ polls[p].pc = "handling" /\ polls[p].h.pc = "reply"
    /\ polls'[p] # polls[p]

\* the caller of POST /send-message was given a failure: sendMessage threw
\* and ended the poll
ReplyFailed(p) == polls'[p].pc = "done" /\ polls'[p].h.pc = "thrown"

\* C28: POST /send-message appends an outgoing message to the log only when
\* the transport has reported success: a reply whose request completes is
\* either stored as the next outgoing message, the caller continuing, or
\* not stored at all, the caller being given a failure.
C28_StoredOnlyWhenSent ==
    [][ \A p \in 1..Len(polls) :
            ReplyCompletes(p) =>
                \/ /\ ~ReplyFailed(p)
                   /\ chatHistory'.incoming = chatHistory.incoming
                   /\ chatHistory'.outgoing =
                          Append(chatHistory.outgoing,
                                 outgoingMessage(messageCounter.outgoing,
                                                 recipientPhone, polls[p].h.ret,
                                                 clock))
                \/ /\ ReplyFailed(p)
                   /\ chatHistory' = chatHistory
                   /\ messageCounter' = messageCounter ]_vars

\* C28 witness: the reply to a stored inbound message failed; the poll ended
\* with the error and the log holds no outgoing message.
C28_Witness ==
    \E p \in 1..Len(polls) :
        /\ polls[p].pc = "done" /\ polls[p].h.pc = "thrown"
        /\ polls[p].h.ret # NoReply
        /\ Len(chatHistory.incoming) > 0
        /\ chatHistory.outgoing = << >>

\* C29: the messages of a poll's batch are in ascending timestamp order and
\* are handled one at a time in that order: while the handling of one of
\* them is under way, no later message of the batch has been interpreted.
C29_BatchHandledInOrder ==
    \A p \in 1..Len(polls) :
        LET batch == polls[p].batch
        IN  /\ \A i, j \in 1..Len(batch) :
                   i < j => batch[i].timestamp <= batch[j].timestamp
            /\ polls[p].pc = "handling" =>
                   \A j \in (polls[p].i + 1)..Len(batch) :
                       effectsOf(effects, batch[j].id).passes = 0

\* poll p ended in its catch block while handling the message with this id
FailedOn(p, id) ==
    /\ polls[p].pc = "done"
    /\ polls[p].h.pc = "thrown"
    /\ polls[p].batch[polls[p].i].id = id

\* C30: a message whose handling failed is not lost: its id is recorded as
\* processed, and the watermark moved to its timestamp or later, only when
\* its reply has been sent.
C30_FailedMessageNotLost ==
    \A k \in 1..Len(chatHistory.incoming) :
        LET m == chatHistory.incoming[k]
        IN  ( /\ \E p \in 1..Len(polls) : FailedOn(p, m.id)
              /\ \/ has(processedMessageIds, m.id)
                 \/ lastMessageTimestamp >= m.timestamp )
                => effectsOf(effects, m.id).replies >= 1

\* C31: the watermark lastMessageTimestamp never decreases, whichever way
\* the polls started by the interval timer interleave.
C31_WatermarkNeverDecreases ==
    [][lastMessageTimestamp' >= lastMessageTimestamp]_vars

\* a poll that has not ended will still come to message m: its request is
\* under way with a cursor before m, or m lies ahead in its batch
StillToHandle(p, m) ==
    \/ polls[p].pc = "fetch" /\ polls[p].since < m.timestamp
    \/ /\ polls[p].pc = "handling"
       /\ \E j \in (polls[p].i + 1)..Len(polls[p].batch) :
              polls[p].batch[j].id = m.id

\* C32: the cursor never skips an inbound message stored after the client
\* was started: when the watermark has reached the timestamp of such a
\* message and no running poll will still come to it, the message has been
\* handed to the interpreter.
C32_NoMessageSkipped ==
    \A k \in 1..Len(chatHistory.incoming) :
        LET m == chatHistory.incoming[k]
        IN  ( /\ m.timestamp > StartOfRun
              /\ m.timestamp <= lastMessageTimestamp
              /\ \A p \in 1..Len(polls) : ~StillToHandle(p, m) )
                => effectsOf(effects, m.id).passes >= 1

(***************************************************************************)
(* Claims about clears and concurrent saves (specification StoreSpec).     *)
(***************************************************************************)
\* the save answered in this step was in flight across a clear: it read
\* tickets, and the file is empty when it writes (no save empties the file)
SavedAcrossClear ==
    /\ IsSaved
    /\ lastSave'.by = "route"
    /\ lastSave'.read # << >>
    /\ ticketsFile = << >>

\* C33: tickets removed by POST /api/clear-tickets do not reappear: a save
\* that was in flight across the clear stores none of the tickets that it
\* read before the clear.
C33_ClearedTicketsStayCleared ==
    [][ SavedAcrossClear =>
            \A i \in 1..Len(lastSave'.read) :
                lastSave'.read[i].ticketNumber \notin ticketNumbers(ticketsFile')
      ]_vars

\* C34: POST /save-ticket drops no stored ticket, however two save requests
\* interleave: when a save is answered, the store holds every ticket it held
\* just before the write and, under each number submitted, a ticket.
C34_SaveDropsNoTicket ==
    [][ (IsSaved /\ lastSave'.by = "route") =>
            /\ \A i \in 1..Len(ticketsFile) :
                   \E j \in 1..Len(ticketsFile') : ticketsFile'[j] = ticketsFile[i]
            /\ \A k \in 1..Len(lastSave'.body) :
                   lastSave'.body[k].ticketNumber \in ticketNumbers(ticketsFile')
      ]_vars

(***************************************************************************)
(* Claims about what a poll interprets (specification SyncSpec).           *)
(***************************************************************************)
\* the message is one that addOutgoingMessage stored
IsOutgoingId(id) == id[1] = "msg_out_"

\* the poll has come past message j of its batch
Passed(p, j) ==
    \/ polls[p].pc = "handling" /\ polls[p].i > j
    \/ polls[p].pc = "done" /\ polls[p].h.pc # "thrown" /\ Len(polls[p].batch) >= j

\* C35: an outgoing message that a poll returns is never interpreted: the
\* loop's condition for interpreting is false for it, no poll is suspended
\* in its handling, and no reply and no ticket is produced for it.
C35_OwnRepliesNotInterpreted ==
    /\ \A p \in 1..Len(polls) : \A j \in 1..Len(polls[p].batch) :
           LET message == polls[p].batch[j]
           IN  IsOutgoingId(message.id) =>
                   /\ ~(message.from = recipientPhone /\ message.to # recipientPhone)
                   /\ ~(polls[p].pc = "handling" /\ polls[p].i = j)
    /\ \A id \in DOMAIN effects :
           IsOutgoingId(id) => effects[id].replies = 0 /\ effects[id].tickets = 0

\* C35 witness: a poll was returned one of the assistant's replies and has
\* come past it
C35_Witness ==
    \E p \in 1..Len(polls) : \E j \in 1..Len(polls[p].batch) :
        /\ IsOutgoingId(polls[p].batch[j].id)
        /\ Passed(p, j)
        /\ has(processedMessageIds, polls[p].batch[j].id)

(***************************************************************************)
(* Claims about clearing the chat history (specification ClearSpec).       *)
(***************************************************************************)
\* the poll has come to message j of its batch or past it
AtOrPast(poll, j) ==
    /\ j <= Len(poll.batch)
    /\ \/ poll.pc = "handling" /\ poll.i >= j
       \/ poll.pc = "done" /\ poll.h.pc = "thrown" /\ poll.i >= j
       \/ poll.pc = "done" /\ poll.h.pc # "thrown"

\* C36: the seen-identifier set rejects no new message: when a poll comes
\* to an inbound message whose id is in processedMessageIds, that very
\* message (the same id, timestamp and content) was returned to a poll
\* before and that poll came to it, also after the chat history was cleared
\* and the ids restarted (no clear being under way).
C36_InterpretedAfterClear ==
    [][ \A p \in 1..Len(polls) : \A j \in 1..Len(polls'[p].batch) :
            LET m == polls'[p].batch[j]
            IN  ( /\ ~AtOrPast(polls[p], j)
                  /\ AtOrPast(polls'[p], j)
                  /\ m.from = recipientPhone /\ m.to # recipientPhone
                  /\ has(processedMessageIds, m.id)
                  /\ storageOps = << >> )
                    => \E q \in 1..Len(polls) : \E i \in 1..Len(polls[q].batch) :
                           polls[q].batch[i] = m /\ AtOrPast(polls[q], i)
      ]_vars

(***************************************************************************)
(* Claims about suppressed messages (specification Spec).                  *)
(***************************************************************************)
\* the content of the message of this call was recorded less than
\* DedupWindow before the call
IsRepeat ==
    LET content == lowerOf(last'.message)
    IN  /\ IsCall
        /\ content \in DOMAIN recentlyProcessedMessages
        /\ clock - recentlyProcessedMessages[content] < DedupWindow

\* C37: a message suppressed by the content check has no effect:
\* handleUserInput returns null at once, no request is made and nothing is
\* sent, and the pending issue, the ticket store and the recorded content
\* times are what they were.
C37_SuppressedHasNoEffect ==
    [][ IsRepeat =>
            /\ last'.ret = NoReply
            /\ last'.pc = "done"
            /\ last'.oks = << >>
            /\ last'.sent = << >>
            /\ last'.ticket = NoTicket
            /\ lastSelectedIssue' = lastSelectedIssue
            /\ ticketsFile' = ticketsFile
            /\ recentlyProcessedMessages' = recentlyProcessedMessages ]_vars

\* C37 witness: a command that selected an issue was repeated within the
\* window while that issue was pending and a ticket was stored
C37_Witness ==
    /\ last.rule = "suppressed"
    /\ startsWith(lowerOf(last.message), T_sprout)
    /\ last.pending # Null
    /\ lastSelectedIssue = last.pending
    /\ ticketsFile # << >>
    /\ last.at - recentlyProcessedMessages[lowerOf(last.message)] = PollInterval

CatalogIssues ==
    UNION { {responses.departments[d].list[i] :
                 i \in 1..Len(responses.departments[d].list)} :
            d \in DOMAIN responses.departments \ {"Other"} }

\* what may be pending: nothing, an issue of the catalog, or its Other text
PendingIssueTyped ==
    lastSelectedIssue \in {Null} \cup CatalogIssues \cup {otherText}

\* C39: in every reachable state the pending issue is none, an issue
\* description of the catalog or the catalog's Other text, and every stored
\* ticket has status "Open" and an issue that is an issue description of
\* the catalog or "None Specified".
C39_ValuesHeld ==
    /\ PendingIssueTyped
    /\ \A k \in 1..Len(ticketsFile) :
           /\ ticketsFile[k].status = "Open"
           /\ ticketsFile[k].issue \in CatalogIssues \cup {T_NoneSpecified}

====
